---- MODULE Spec2Model ----
(***************************************************************************)
(* Proxy-chain engine (src/src/chainEngine.js), the protocol clients it    *)
(* drives (SOCKS5 in src/CHAIN_ENGINE.md, SOCKS4 in src/src/chainEngine.js,*)
(* HTTP CONNECT in src/src/httpConnect.js) and the TCPSocket transport     *)
(* (src/unnamed/part_001).                                                 *)
(*                                                                         *)
(* One action is one task of the JavaScript event loop: an API call, a     *)
(* socket callback or a timer callback, together with every promise        *)
(* continuation (microtask) it triggers, up to the next await on an        *)
(* external event.  Time is counted in seconds; a timer holds the seconds  *)
(* left until it fires, Off when it is not armed.                          *)
(***************************************************************************)
EXTENDS Integers, Sequences, FiniteSets, TLC

VARIABLES
  config,             \* ProxyChainEngine.config
  activeConnections,  \* ProxyChainEngine.activeConnections (sockets named by their call)
  calls,              \* per buildChain invocation: its locals, its socket, its timers
  inputs,             \* the arguments the environment passes to each buildChain call
  wire                \* one protocol client and its socket, byte by byte (SpecWire, SpecAddr)

vars == <<config, activeConnections, calls, inputs, wire>>

(* ------------------------------ bounds --------------------------------- *)
MaxHops == 2          \* longest chain
MaxRetriesCfg == 1    \* largest configured maxRetries
ShortStep == 1        \* a configured connectionTimeout below totalTimeout
LongStep == 4         \* a configured connectionTimeout above totalTimeout
TotalCfg == 3         \* the configured totalTimeout
MaxHeaders == 1       \* most header lines in an HTTP proxy's response
MaxTrailing == 2      \* most bytes a peer sends right after the header terminator
MaxGroups == 4        \* most groups of a target address string
MaxChainId == 2       \* most distinct chain ids in the storage module

(* -------------------------- program constants -------------------------- *)
ReadLineTimeout == 30 \* readLine: setTimeout(..., 30000)
DrainTimeout == 1     \* readRemainingData(socket, 1000)
BackoffUnit == 1      \* setTimeout(resolve, 1000 * retryCount)
MaxPort == 65535       \* the largest port the protocol clients accept
AuthMaxLength == 255  \* AUTH_MAX_USERNAME_LENGTH, AUTH_MAX_PASSWORD_LENGTH

\* a timer that is not armed (never set, cleared, or already fired)
Off == -1

\* the buildChain invocations of a behaviour, named by number.  Spec makes
\* the first of them only; SpecPair makes both, concurrently.
CallIds == {1, 2}

(* ------------------------------ inputs --------------------------------- *)
\* A host is a number: 0 is the empty string, TargetHost the target's name,
\* ProxyHost(j) the address of the j-th proxy of a chain.
TargetHost == 99
ProxyHost(j) == 10 + j
ProxyPort(j) == 1080 + j

ProxyKinds ==
  { [type |-> "socks5", username |-> "u", password |-> "p"],
    [type |-> "socks5", username |-> "",  password |-> ""],
    [type |-> "socks4", username |-> "",  password |-> ""],
    [type |-> "HTTP",   username |-> "",  password |-> ""],
    [type |-> "ftp",    username |-> "",  password |-> ""] }

MkProxy(k, j) ==
  [address |-> ProxyHost(j), port |-> ProxyPort(j), type |-> k.type,
   username |-> k.username, password |-> k.password]

ChainsOfLen(n) == { [j \in 1..n |-> MkProxy(ks[j], j)] : ks \in [1..n -> ProxyKinds] }

\* chain.proxies: the empty list and every list of 1..MaxHops proxies
Chains == UNION { ChainsOfLen(n) : n \in 0..MaxHops }

TargetAddresses == {0, TargetHost}
TargetPorts == {0, 443, 70000}

\* a buildChain call the environment makes; closeThrows tells whether the
\* browser's close call throws for the socket of this call
Call(ch, ta, tp, throws) ==
  [chain |-> ch, targetAddress |-> ta, targetPort |-> tp, made |-> TRUE, closeThrows |-> throws]

\* a call that is not made
NoCall ==
  [chain |-> << >>, targetAddress |-> 0, targetPort |-> 0, made |-> FALSE, closeThrows |-> FALSE]

\* Credentials are named by strings: "u256" stands for a username of 256
\* characters, "uwide" for one with a character above U+00FF; "v", "q",
\* "v256" and "vwide" are other values of the same shapes as "u", "p",
\* "u256" and "uwide".
StringLength(s) ==
  CASE s = "" -> 0
    [] s \in {"u256", "v256"} -> AuthMaxLength + 1
    [] OTHER -> 1

\* btoa encodes the string without throwing: every character is at most U+00FF
Latin1(s) == s \notin {"uwide", "vwide"}

\* hop descriptors with credentials that a client refuses, an HTTP hop and a
\* SOCKS4 hop with credentials, and a hop of type HTTPS
EdgeKinds ==
  { [type |-> "socks5", username |-> "u256",  password |-> "p"],
    [type |-> "HTTP",   username |-> "uwide", password |-> "p"],
    [type |-> "HTTP",   username |-> "u",     password |-> "p"],
    [type |-> "socks4", username |-> "u",     password |-> "p"],
    [type |-> "HTTPS",  username |-> "",      password |-> ""] }

\* hop descriptors that carry only one of username and password
HalfKinds ==
  { [type |-> "socks5", username |-> "u", password |-> ""],
    [type |-> "socks5", username |-> "",  password |-> "p"],
    [type |-> "HTTP",   username |-> "u", password |-> ""] }

\* buildChain arguments: every chain with a well-formed target, the empty
\* chain and the one-proxy chains with every target, and the one-proxy chains
\* whose hop carries half of its credentials or credentials that a client
\* refuses
Arguments ==
  { Call(ch, TargetHost, 443, FALSE) : ch \in Chains }
  \cup { Call(ch, ta, tp, FALSE) :
           ch \in ChainsOfLen(0) \cup ChainsOfLen(1), ta \in TargetAddresses, tp \in TargetPorts }
  \cup { Call(<<MkProxy(k, 1)>>, TargetHost, 443, FALSE) : k \in HalfKinds \cup EdgeKinds }

\* engine configurations: every maxRetries with a connectionTimeout below
\* totalTimeout, and one configuration with connectionTimeout above it
Configs ==
  { [connectionTimeout |-> ShortStep, totalTimeout |-> TotalCfg, maxRetries |-> mr] :
      mr \in 0..MaxRetriesCfg }
  \cup { [connectionTimeout |-> LongStep, totalTimeout |-> TotalCfg, maxRetries |-> 0] }

\* what TCPSocket.connect finds: chrome.sockets.tcp, browser.sockets.tcp, a
\* WebSocket constructor, or none of them
Apis == {"chrome", "firefox", "websocket", "none"}

(* ------------------------ pure helpers of the code --------------------- *)
\* String.prototype.toLowerCase on the type strings in use
ToLowerCase(s) ==
  CASE s = "HTTP" -> "http"
    [] s = "HTTPS" -> "https"
    [] s = "SOCKS5" -> "socks5"
    [] s = "SOCKS4" -> "socks4"
    [] OTHER -> s

\* a _getProtocolHandler that compares the type string as it is written
GetProtocolHandlerCaseSensitive(proxyType) ==
  CASE proxyType = "socks5" -> "SOCKS5Protocol"
    [] proxyType = "socks4" -> "SOCKS4Protocol"
    [] proxyType \in {"http", "https"} -> "HttpConnectProtocol"
    [] OTHER -> "none"

\* _getProtocolHandler: the protocol client for a type, "none" when it throws
GetProtocolHandler(proxyType) ==
  LET t == ToLowerCase(proxyType) IN
  CASE t = "socks5" -> "SOCKS5Protocol"
    [] t = "socks4" -> "SOCKS4Protocol"
    [] t \in {"http", "https"} -> "HttpConnectProtocol"
    [] OTHER -> "none"

\* the port checks of the protocol clients: !port || port < 1 || port > 65535
ValidPort(port) == port # 0 /\ port >= 1 /\ port <= MaxPort

\* the address checks of the protocol clients: !address
ValidAddress(address) == address # 0

\* _connectThroughProxy: auth is passed only when username and password are both set
AuthOf(proxy) == proxy.username # "" /\ proxy.password # ""

\* the auth argument of protocolHandler.connect: {username, password} or undefined
NoAuth == [present |-> FALSE, username |-> "", password |-> ""]
EngineAuth(proxy) ==
  IF AuthOf(proxy)
  THEN [present |-> TRUE, username |-> proxy.username, password |-> proxy.password]
  ELSE NoAuth

\* SOCKS5Protocol.connect: requiresAuth = !!(auth && (auth.username || auth.password))
RequiresAuth(auth) == auth.present /\ (auth.username # "" \/ auth.password # "")

(* ---------------------- handshake messages as written ------------------ *)
\* A message is the list of the values its bytes are built from.
Msg(kind, methods, username, password, address, port) ==
  [kind |-> kind, nmethods |-> Len(methods), methods |-> methods,
   username |-> username, password |-> password, address |-> address, port |-> port]

NoMsg == Msg("none", << >>, "", "", 0, 0)

\* a greeting that leaves out username/password once the client has authenticated
S5GreetingOnce(proto, requiresAuth) ==
  Msg("greeting", IF requiresAuth /\ ~proto.authenticated THEN <<0, 2>> ELSE <<0>>,
      "", "", 0, 0)

\* sendGreeting: [VER, NMETHODS, METHODS]; proto is the SOCKS5Protocol object
S5Greeting(proto, requiresAuth) ==
  Msg("greeting", IF requiresAuth THEN <<0, 2>> ELSE <<0>>, "", "", 0, 0)

\* authenticateWithPassword: [VER, ULEN, UNAME, PLEN, PASSWD]
S5AuthRequest(proto, username, password) == Msg("auth", << >>, username, password, 0, 0)

\* sendConnectRequest: [VER, CMD, RSV, ATYP, DST.ADDR, DST.PORT]
S5ConnectRequest(proto, address, port) == Msg("connect", << >>, "", "", address, port)

\* auth?.userid: the userid property of the auth object, undefined (the empty
\* user id, by _sendConnectRequest's default) when auth is undefined or has no
\* such property
Userid(auth) == IF auth.present /\ "userid" \in DOMAIN auth THEN auth.userid ELSE ""

\* SOCKS4Protocol._sendConnectRequest: [VN, CD, DSTPORT, DSTIP, USERID, NULL];
\* the user id is auth?.userid
S4Request(address, port, auth) == Msg("socks4", << >>, Userid(auth), "", address, port)

\* encodeBasicAuth, called when auth.username is set, does not throw
Encodable(auth) ==
  (auth.present /\ auth.username # "") => (Latin1(auth.username) /\ Latin1(auth.password))

\* HttpConnectProtocol._sendConnectRequest: Proxy-Authorization when auth.username
HttpRequest(address, port, auth) ==
  IF auth.present /\ auth.username # ""
  THEN Msg("http", << >>, auth.username, auth.password, address, port)
  ELSE Msg("http", << >>, "", "", address, port)


(* ------------------------------ state ---------------------------------- *)
\* connectionInfo.steps entries
StepRecord(n, t) == [step |-> n, type |-> t, success |-> TRUE]

NoRequest == [hop |-> 0, handler |-> "none", address |-> 0, port |-> 0, attempt |-> 0]
NoWrite == [hop |-> 0, attempt |-> 0, msg |-> NoMsg]
NoFail == [hop |-> 0, attempt |-> 0, kind |-> "none", consumed |-> FALSE]

\* A buildChain invocation before it is made
IdleCall ==
  [ chain |-> << >>, targetAddress |-> 0, targetPort |-> 0,
    outer |-> "none",          \* the promise buildChain returns: none/pending/resolved/rejected
    error |-> "none",          \* kind of the error buildChain rejected with
    failStep |-> 0,            \* connectionInfo.steps.length in buildChain's catch
    pc |-> "idle",             \* where _buildChainInternal is suspended
    currentSocket |-> FALSE,   \* _buildChainInternal's currentSocket is assigned
    i |-> 0,                   \* 1-based number of the hop being negotiated
    retryCount |-> 0,          \* _connectThroughProxy's retryCount
    phase |-> "none",          \* the reply the protocol client is waiting for
    status |-> 0,              \* statusCode parsed by the HTTP client
    steps |-> << >>,           \* connectionInfo.steps
    request |-> NoRequest,     \* arguments of the latest protocolHandler.connect call
    nAttempts |-> 0,           \* connect calls made for the current hop
    lastWrite |-> NoWrite,     \* the latest handshake message put on the wire
    lastFail |-> NoFail,       \* the error in hand in the retry loop's catch block
    elapsed |-> 0,             \* seconds since the current connect call began, counted
                               \* up to connectionTimeout + 1
    opened |-> 0,              \* TCPSocket objects this call has constructed
    connected |-> FALSE,       \* TCPSocket.connected
    closeThrows |-> FALSE,     \* the browser's close call throws for this socket
    closeCalls |-> 0,          \* close() calls made on the socket, counted up to 2
    closedEvents |-> 0,        \* 'closed' events close() emitted, counted up to 2
    released |-> 0,            \* close calls made on the socket id / WebSocket, counted up to 2
    authenticated |-> FALSE,   \* SOCKS5Protocol.authenticated of the current hop's client
    res |-> "none",            \* the underlying socket id / WebSocket: none/open/closed
    totalT |-> Off,            \* buildChain's total timeout timer
    connT |-> Off,             \* _createDirectConnection's timeoutId
    waitT |-> Off ]            \* the timer the suspended code waits on (readLine, backoff, drain)

\* the byte-level view is not in use
NoWire == [use |-> "none"]

Init ==
  /\ wire = NoWire
  /\ config \in Configs
  /\ activeConnections = {}
  /\ calls = [c \in CallIds |-> IdleCall]
  /\ \E a \in Arguments : inputs = [c \in CallIds |-> IF c = 1 THEN a ELSE NoCall]

W(id) == [c |-> calls[id], a |-> activeConnections]

Commit(id, w) ==
  /\ calls' = [calls EXCEPT ![id] = w.c]
  /\ activeConnections' = w.a
  /\ UNCHANGED <<config, inputs, wire>>

(* --------------------------- TCPSocket --------------------------------- *)
\* a counter that tells none, one and more than one apart
Counted(n) == IF n < 2 THEN n + 1 ELSE n

\* a close() without the test of the connected flag
SocketCloseUnguarded(r) ==
  [r EXCEPT !.connected = FALSE,
            !.res = IF r.res = "open" THEN "closed" ELSE r.res,
            !.released = Counted(@),
            !.closedEvents = Counted(@)]

\* TCPSocket.close: nothing unless connected; the flag is cleared first, then
\* the socket id or WebSocket is closed, then 'closed' is emitted.  When the
\* browser's close call throws, the rest of close() is skipped.
SocketClose(r) ==
  IF r.connected
  THEN IF r.closeThrows
       THEN [r EXCEPT !.connected = FALSE]
       ELSE [r EXCEPT !.connected = FALSE,
                      !.res = IF r.res = "open" THEN "closed" ELSE r.res,
                      !.released = Counted(@),
                      !.closedEvents = Counted(@)]
  ELSE r

\* TCPSocket.write as the write helpers use it: the promise it returns is not
\* awaited, so a write on a socket that is not connected sends nothing and
\* the helper resolves all the same.
SocketWrite(r, m) ==
  IF r.connected
  THEN [r EXCEPT !.lastWrite = [hop |-> r.i, attempt |-> r.nAttempts, msg |-> m]]
  ELSE r

(* --------------------------- ProxyChainEngine -------------------------- *)
\* _cleanupSocket: socket.close() inside try / catch, so a close that throws
\* is logged and goes no further
CleanupSocket(r) == [SocketClose(r) EXCEPT !.closeCalls = Counted(@)]

\* a buildChain whose timeout handler closes the socket whenever it runs
BuildChainCatchClosing(r, kind) ==
  IF r.outer = "pending"
  THEN [r EXCEPT !.outer = "rejected", !.error = kind, !.failStep = Len(r.steps)]
  ELSE CleanupSocket(r)

\* buildChain's catch block: currentSocket there is buildChain's own local,
\* which is never assigned, so nothing is cleaned up.  The total timeout
\* timer is never cleared: it stays armed when the race is settled.
BuildChainCatch(r, kind) ==
  IF r.outer = "pending"
  THEN [r EXCEPT !.outer = "rejected", !.error = kind, !.failStep = Len(r.steps)]
  ELSE r

\* _buildChainInternal's catch block, then the rejection reaching Promise.race
InternalCatch(id, w, kind) ==
  LET r1 == IF w.c.currentSocket THEN CleanupSocket(w.c) ELSE w.c
      a1 == IF w.c.currentSocket THEN w.a \ {id} ELSE w.a
      r2 == [r1 EXCEPT !.pc = "threw", !.phase = "none", !.waitT = Off, !.connT = Off,
                        !.elapsed = 0, !.status = 0, !.authenticated = FALSE]
  IN [c |-> BuildChainCatch(r2, kind), a |-> a1]

\* _buildChainInternal returns {socket, bindAddress, bindPort}; buildChain
\* resolves unless the total timeout has already rejected it
InternalReturn(w) ==
  LET r1 == [w.c EXCEPT !.pc = "returned", !.phase = "none", !.waitT = Off, !.elapsed = 0,
                        !.authenticated = FALSE]
  IN [w EXCEPT !.c = IF r1.outer = "pending" THEN [r1 EXCEPT !.outer = "resolved"] ELSE r1]

\* NextEndpoint with the last-hop test off by one
NextEndpointOffByOne(chain, i, targetAddress, targetPort) ==
  IF i >= Len(chain) - 1
  THEN [address |-> targetAddress, port |-> targetPort]
  ELSE [address |-> chain[i + 1].address, port |-> chain[i + 1].port]

\* the endpoint hop i (1-based) is asked to reach
NextEndpoint(chain, i, targetAddress, targetPort) ==
  IF i = Len(chain)
  THEN [address |-> targetAddress, port |-> targetPort]
  ELSE [address |-> chain[i + 1].address, port |-> chain[i + 1].port]

\* the retry loop's catch clause: catch (error) takes an error of any kind
Caught(kind) == TRUE

\* a retry loop that goes round once more
RetryAllowedOnceMore(retryCount, maxRetries) == retryCount <= maxRetries + 1

\* the retry loop goes on while retryCount <= this.config.maxRetries
RetryAllowed(retryCount, maxRetries) == retryCount <= maxRetries

\* the protocol client object of the current hop
Proto(r) == [authenticated |-> r.authenticated]

\* a pause of the same length before every retry
BackoffDelayFixed(retryCount) == BackoffUnit

\* the pause before the next pass: setTimeout(resolve, 1000 * retryCount)
BackoffDelay(retryCount) == BackoffUnit * retryCount

\* the catch block of _connectThroughProxy's retry loop
AttemptFailed(id, w, kind, consumed) ==
  LET n == w.c.retryCount + 1
      r1 == [w.c EXCEPT !.retryCount = n,
                        !.lastFail = [hop |-> w.c.i, attempt |-> w.c.nAttempts,
                                      kind |-> kind, consumed |-> consumed]]
  IN IF Caught(kind) /\ RetryAllowed(n, config.maxRetries)
     THEN [w EXCEPT !.c = [r1 EXCEPT !.pc = "backoff", !.phase = "none", !.elapsed = 0,
                                     !.status = 0,
                                     !.waitT = BackoffDelay(n)]]
     ELSE InternalCatch(id, [w EXCEPT !.c = r1], kind)

\* one pass of the retry loop, up to the first await of the protocol client:
\* protocolHandler.connect(targetAddress, targetPort, socket, auth)
Attempt(id, w) ==
  LET r == w.c
      ep == NextEndpoint(r.chain, r.i, r.targetAddress, r.targetPort)
      h == GetProtocolHandler(r.chain[r.i].type)
      auth == EngineAuth(r.chain[r.i])
      r1 == [r EXCEPT !.nAttempts = r.nAttempts + 1, !.elapsed = 0, !.lastFail = NoFail,
                      !.request = [hop |-> r.i, handler |-> h, address |-> ep.address,
                                   port |-> ep.port, attempt |-> r.nAttempts + 1]]
      w1 == [w EXCEPT !.c = r1]
  IN CASE h = "SOCKS5Protocol" ->
            [w EXCEPT !.c = [SocketWrite(r1, S5Greeting(Proto(r1), RequiresAuth(auth))) EXCEPT
                               !.pc = "reading", !.phase = "s5_method"]]
       [] h = "SOCKS4Protocol" ->
            IF ~ValidAddress(ep.address) \/ ~ValidPort(ep.port)
            THEN AttemptFailed(id, w1, "ConfigError", FALSE)
            ELSE [w EXCEPT !.c = [SocketWrite(r1, S4Request(ep.address, ep.port, auth)) EXCEPT
                                    !.pc = "reading", !.phase = "s4_reply"]]
       [] OTHER ->
            IF ~ValidAddress(ep.address) \/ ~ValidPort(ep.port)
            THEN AttemptFailed(id, w1, "ConfigError", FALSE)
            ELSE IF ~Encodable(auth)
            THEN AttemptFailed(id, w1, "InvalidCharacter", FALSE)
            ELSE [w EXCEPT !.c = [SocketWrite(r1, HttpRequest(ep.address, ep.port, auth)) EXCEPT
                                    !.pc = "reading", !.phase = "http_status",
                                    !.waitT = ReadLineTimeout]]

\* _connectThroughProxy up to its first await, for hop i; _getProtocolHandler
\* makes a new protocol client
ConnectThroughProxy(id, w, i) ==
  LET r1 == [w.c EXCEPT !.i = i, !.retryCount = 0, !.nAttempts = 0, !.authenticated = FALSE]
      w1 == [w EXCEPT !.c = r1]
  IN IF GetProtocolHandler(r1.chain[i].type) = "none"
     THEN InternalCatch(id, w1, "UnsupportedProxyType")
     ELSE Attempt(id, w1)

\* _buildChainInternal after _connectThroughProxy returned for hop i
AttemptSucceeded(id, w) ==
  LET r == w.c
      n == Len(r.chain)
  IN IF n = 1
     THEN InternalReturn(w)
     ELSE IF r.i = n
          THEN InternalReturn([w EXCEPT !.c.steps =
                                 Append(r.steps, StepRecord(r.i, "proxy_to_target"))])
          ELSE ConnectThroughProxy(id,
                 [w EXCEPT !.c.steps = Append(r.steps, StepRecord(r.i, "proxy_to_proxy"))],
                 r.i + 1)

\* DirectConnected without this.activeConnections.add(currentSocket)
DirectConnectedUnregistered(id, w) ==
  LET r1 == [w.c EXCEPT !.currentSocket = TRUE, !.connT = Off,
                        !.steps = Append(w.c.steps, StepRecord(1, "direct"))]
  IN ConnectThroughProxy(id, [c |-> r1, a |-> w.a], 1)

\* _buildChainInternal after _createDirectConnection returned the socket
DirectConnected(id, w) ==
  LET r1 == [w.c EXCEPT !.currentSocket = TRUE, !.connT = Off,
                        !.steps = Append(w.c.steps, StepRecord(1, "direct"))]
  IN ConnectThroughProxy(id, [c |-> r1, a |-> w.a \cup {id}], 1)


(* ------------------------- SOCKS5 / SOCKS4 / HTTP ---------------------- *)
\* SOCKS5Protocol.sendConnectRequest up to its first read
S5SendConnect(id, w) ==
  IF ~ValidAddress(w.c.request.address) \/ ~ValidPort(w.c.request.port)
  THEN AttemptFailed(id, w, "ConfigError", TRUE)
  ELSE [w EXCEPT !.c = [SocketWrite(w.c, S5ConnectRequest(Proto(w.c), w.c.request.address,
                                                          w.c.request.port))
                          EXCEPT !.phase = "s5_connect"]]

\* SOCKS5Protocol.sendGreeting after its read, then connect's step 2
S5MethodSelected(id, w, m) ==
  CASE m = "bad" -> AttemptFailed(id, w, "ProtocolError", TRUE)
    [] m = "mFF" -> AttemptFailed(id, w, "NoAcceptableMethods", TRUE)
    [] m = "m02" ->
         LET auth == EngineAuth(w.c.chain[w.c.i]) IN
         IF ~auth.present \/ auth.username = "" \/ auth.password = ""
         THEN AttemptFailed(id, w, "AuthRequiredButNotProvided", TRUE)
         ELSE IF StringLength(auth.username) > AuthMaxLength
         THEN AttemptFailed(id, w, "UsernameTooLong", TRUE)
         ELSE IF StringLength(auth.password) > AuthMaxLength
         THEN AttemptFailed(id, w, "PasswordTooLong", TRUE)
         ELSE [w EXCEPT !.c = [SocketWrite(w.c, S5AuthRequest(Proto(w.c), auth.username,
                                                              auth.password))
                                 EXCEPT !.phase = "s5_auth"]]
    [] OTHER -> S5SendConnect(id, w)

\* an authenticateWithPassword whose failure message quotes the username
S5AuthAnsweredNaming(id, w, m) ==
  CASE m = "bad" -> AttemptFailed(id, w, "ProtocolError", TRUE)
    [] m = "fail" -> AttemptFailed(id, w, w.c.chain[w.c.i].username, TRUE)
    [] OTHER -> S5SendConnect(id, [w EXCEPT !.c.authenticated = TRUE])

\* SOCKS5Protocol.authenticateWithPassword after its read
S5AuthAnswered(id, w, m) ==
  CASE m = "bad" -> AttemptFailed(id, w, "ProtocolError", TRUE)
    [] m = "fail" -> AttemptFailed(id, w, "AuthFailed", TRUE)
    [] OTHER -> S5SendConnect(id, [w EXCEPT !.c.authenticated = TRUE])

\* the reply checks of SOCKS5Protocol.sendConnectRequest and of
\* SOCKS4Protocol._sendConnectRequest
ConnectAnswered(id, w, m) ==
  CASE m = "bad" -> AttemptFailed(id, w, "ProtocolError", TRUE)
    [] m = "rep" -> AttemptFailed(id, w, "NegotiationRejected", TRUE)
    [] OTHER -> AttemptSucceeded(id, w)

\* HttpConnectProtocol._sendConnectRequest after the status line was read
HttpStatusRead(id, w, m) ==
  IF m = "bad"
  THEN AttemptFailed(id, [w EXCEPT !.c.waitT = Off], "ProtocolError", TRUE)
  ELSE [w EXCEPT !.c = [w.c EXCEPT !.status = IF m = "200" THEN 200 ELSE 407,
                                   !.phase = "http_headers", !.waitT = ReadLineTimeout]]

\* HttpConnectProtocol._sendConnectRequest after a header line was read
HttpHeaderRead(id, w, m) ==
  IF m = "header"
  THEN [w EXCEPT !.c.waitT = ReadLineTimeout]
  ELSE IF w.c.status = 200
       THEN [w EXCEPT !.c = [w.c EXCEPT !.pc = "draining", !.phase = "none", !.status = 0,
                                        !.waitT = DrainTimeout]]
       ELSE AttemptFailed(id, [w EXCEPT !.c.waitT = Off], "NegotiationRejected", TRUE)

(* ------------------------------ actions -------------------------------- *)
Reading(id, ph) == calls[id].pc = "reading" /\ calls[id].phase = ph /\ calls[id].connected

\* engine.buildChain(chain, targetAddress, targetPort), up to socket.connect()
BuildChain(id) ==
  /\ inputs[id].made
  /\ calls[id].pc = "idle"
  /\ LET chain == inputs[id].chain
         ta == inputs[id].targetAddress
         tp == inputs[id].targetPort
         r0 == [calls[id] EXCEPT !.chain = chain, !.targetAddress = ta, !.targetPort = tp,
                                 !.closeThrows = inputs[id].closeThrows]
         r1 == [r0 EXCEPT !.outer = "pending", !.totalT = config.totalTimeout,
                          !.connT = config.connectionTimeout, !.opened = @ + 1]
     IN IF Len(chain) = 0
        THEN Commit(id, [W(id) EXCEPT !.c = [r0 EXCEPT !.pc = "notrun", !.outer = "rejected",
                                                       !.error = "InvalidChain"]])
        ELSE IF ta = 0 \/ tp = 0
        THEN Commit(id, [W(id) EXCEPT !.c = [r0 EXCEPT !.pc = "notrun", !.outer = "rejected",
                                                       !.error = "InvalidTarget"]])
        ELSE \E api \in Apis :
               CASE api \in {"chrome", "firefox"} ->
                      Commit(id, [W(id) EXCEPT !.c = [r1 EXCEPT !.pc = "creating"]])
                 [] api = "websocket" ->
                      Commit(id, [W(id) EXCEPT !.c = [r1 EXCEPT !.pc = "wsopening",
                                                                !.res = "open"]])
                 [] OTHER ->
                      Commit(id, InternalCatch(id, [W(id) EXCEPT !.c = r1], "ConnectError"))

\* the callback of sockets.tcp.create
SocketCreated(id) ==
  /\ calls[id].pc = "creating"
  /\ \E ok \in BOOLEAN :
       IF ok
       THEN Commit(id, [W(id) EXCEPT !.c = [calls[id] EXCEPT !.pc = "connecting", !.res = "open"]])
       ELSE Commit(id, InternalCatch(id, W(id), "ConnectError"))

\* the socket id / WebSocket after a failed connect: _connectChrome closes
\* the socket id, _connectFirefox does not, a failed WebSocket is closed
ResAfterConnectFailure(api) == IF api = "firefox" THEN "open" ELSE "closed"

\* the callback of sockets.tcp.connect without an error, or the WebSocket's onopen
SocketConnected(id) ==
  /\ calls[id].pc \in {"connecting", "wsopening"}
  /\ Commit(id, DirectConnected(id, [W(id) EXCEPT !.c.connected = TRUE]))

\* the callback of sockets.tcp.connect with an error (the API being chrome's
\* or browser's), or the WebSocket's onerror
SocketConnectFailed(id) ==
  /\ calls[id].pc \in {"connecting", "wsopening"}
  /\ \E api \in (IF calls[id].pc = "wsopening" THEN {"websocket"} ELSE {"chrome", "firefox"}) :
       Commit(id, InternalCatch(id, [W(id) EXCEPT !.c.res = ResAfterConnectFailure(api)],
                                "ConnectError"))

\* 'data' events carrying the reply the protocol client waits for
MethodReply(id) ==
  /\ Reading(id, "s5_method")
  /\ \E m \in {"m00", "m02", "mFF", "bad"} : Commit(id, S5MethodSelected(id, W(id), m))

AuthReply(id) ==
  /\ Reading(id, "s5_auth")
  /\ \E m \in {"ok", "fail", "bad"} : Commit(id, S5AuthAnswered(id, W(id), m))

Socks5Reply(id) ==
  /\ Reading(id, "s5_connect")
  /\ \E m \in {"ok", "rep", "bad"} : Commit(id, ConnectAnswered(id, W(id), m))

Socks4Reply(id) ==
  /\ Reading(id, "s4_reply")
  /\ \E m \in {"ok", "rep", "bad"} : Commit(id, ConnectAnswered(id, W(id), m))

HttpStatusLine(id) ==
  /\ Reading(id, "http_status")
  /\ \E m \in {"200", "407", "bad"} : Commit(id, HttpStatusRead(id, W(id), m))

HttpHeaderLine(id) ==
  /\ Reading(id, "http_headers")
  /\ \E m \in {"header", "blank"} : Commit(id, HttpHeaderRead(id, W(id), m))

\* readRemainingData's onData: the drain timer starts again
DrainData(id) ==
  /\ calls[id].pc = "draining" /\ calls[id].connected
  /\ calls[id].waitT # DrainTimeout
  /\ Commit(id, [W(id) EXCEPT !.c.waitT = DrainTimeout])

\* readRemainingData's timer: _sendConnectRequest returns
DrainDone(id) ==
  /\ calls[id].pc = "draining" /\ calls[id].waitT = 0
  /\ Commit(id, AttemptSucceeded(id, [W(id) EXCEPT !.c.waitT = Off]))

\* an 'error' event of the socket while a read is pending: the read rejects
SocketError(id) ==
  /\ calls[id].pc \in {"reading", "draining"} /\ calls[id].connected
  /\ Commit(id, AttemptFailed(id, [W(id) EXCEPT !.c.waitT = Off], "IOError",
                              calls[id].phase \notin {"s5_method", "s4_reply", "http_status"}))

\* readLine's setTimeout callback with foundCRLF false
ReadLineTimedOut(id) ==
  /\ calls[id].pc = "reading" /\ calls[id].phase \in {"http_status", "http_headers"}
  /\ calls[id].waitT = 0
  /\ Commit(id, AttemptFailed(id, [W(id) EXCEPT !.c.waitT = Off], "Timeout",
                              calls[id].phase = "http_headers"))

\* the backoff timer of _connectThroughProxy: the loop goes round
BackoffDone(id) ==
  /\ calls[id].pc = "backoff" /\ calls[id].waitT = 0
  /\ Commit(id, Attempt(id, [W(id) EXCEPT !.c.waitT = Off]))

\* buildChain's total timeout timer: totalTimeoutPromise rejects
TotalTimeout(id) ==
  /\ calls[id].totalT = 0
  /\ Commit(id, [W(id) EXCEPT !.c = BuildChainCatch([calls[id] EXCEPT !.totalT = Off], "Timeout")])

\* _createDirectConnection's timer: its callback is empty
ConnectionTimeout(id) ==
  /\ calls[id].connT = 0
  /\ Commit(id, [W(id) EXCEPT !.c.connT = Off])

\* closeAllConnections with a cleanup that lets the error of a throwing
\* close through: the loop is left and the set is not cleared
ClosedAllAborting(cs, a) ==
  [calls |-> [c \in CallIds |-> IF c \in a THEN CleanupSocket(cs[c]) ELSE cs[c]],
   active |-> IF \E c \in a : cs[c].connected /\ cs[c].closeThrows THEN a ELSE {}]

\* closeAllConnections as a function of the engine's state: every member is
\* cleaned up, then the set is cleared
ClosedAll(cs, a) ==
  [calls |-> [c \in CallIds |-> IF c \in a THEN CleanupSocket(cs[c]) ELSE cs[c]],
   active |-> {}]

\* getStats()
GetStats(a) == [activeConnections |-> Cardinality(a), config |-> config]

\* engine.closeAllConnections()
CloseAllConnections ==
  /\ calls' = ClosedAll(calls, activeConnections).calls
  /\ activeConnections' = ClosedAll(calls, activeConnections).active
  /\ UNCHANGED <<config, inputs, wire>>

\* the caller of a resolved buildChain calls close() on the socket it received
CallerClose(id) ==
  /\ calls[id].outer = "resolved"
  /\ Commit(id, [W(id) EXCEPT !.c = [SocketClose(calls[id]) EXCEPT !.closeCalls = Counted(@)]])

\* what a listener or timer left behind by a finished read does when it runs:
\* readLine's timer finds foundCRLF set, a left-over 'error' listener removes
\* listeners and rejects a promise that is already settled, and the 'error'
\* listener of _createDirectConnection clears a timer and throws into _emit's
\* catch.  None of them touches the socket or the engine.
LeftOverRuns(r) == r

\* a left-over listener or timer of a call that has finished runs
LateCallback(id) ==
  /\ calls[id].pc \in {"returned", "threw"}
  /\ calls[id].request # NoRequest
  /\ Commit(id, [W(id) EXCEPT !.c = LeftOverRuns(calls[id])])

Armed(t) == t # Off
Busy(r) == r.pc \in {"creating", "connecting", "wsopening", "reading", "backoff", "draining"}

\* one second passes: no armed timer is due, every armed timer loses a second
Tick ==
  /\ \E c \in CallIds : Busy(calls[c]) \/ Armed(calls[c].totalT)
  /\ \A c \in CallIds : calls[c].totalT # 0 /\ calls[c].connT # 0 /\ calls[c].waitT # 0
  /\ calls' = [c \in CallIds |->
        [calls[c] EXCEPT
           !.totalT = IF Armed(@) THEN @ - 1 ELSE @,
           !.connT = IF Armed(@) THEN @ - 1 ELSE @,
           !.waitT = IF Armed(@) THEN @ - 1 ELSE @,
           !.elapsed = IF calls[c].pc \in {"reading", "draining"}
                          /\ @ <= config.connectionTimeout
                       THEN @ + 1 ELSE @]]
  /\ UNCHANGED <<config, activeConnections, inputs, wire>>

Next ==
  \/ \E id \in CallIds :
       \/ BuildChain(id)
       \/ SocketCreated(id)
       \/ SocketConnected(id)
       \/ SocketConnectFailed(id)
       \/ MethodReply(id)
       \/ AuthReply(id)
       \/ Socks5Reply(id)
       \/ Socks4Reply(id)
       \/ HttpStatusLine(id)
       \/ HttpHeaderLine(id)
       \/ DrainData(id)
       \/ DrainDone(id)
       \/ SocketError(id)
       \/ ReadLineTimedOut(id)
       \/ BackoffDone(id)
       \/ TotalTimeout(id)
       \/ ConnectionTimeout(id)
       \/ CallerClose(id)
       \/ LateCallback(id)
  \/ CloseAllConnections
  \/ Tick

Spec == Init /\ [][Next]_vars

(* ------------------------ one hop, retried twice ----------------------- *)
\* a one-proxy chain of every kind, with an engine that allows one retry
\* more than the largest maxRetries of Spec
InitRetry ==
  /\ wire = NoWire
  /\ config = [connectionTimeout |-> ShortStep, totalTimeout |-> TotalCfg,
               maxRetries |-> MaxRetriesCfg + 1]
  /\ activeConnections = {}
  /\ calls = [c \in CallIds |-> IdleCall]
  /\ \E k \in ProxyKinds, ta \in TargetAddresses :
       inputs = [c \in CallIds |->
                   IF c = 1 THEN Call(<<MkProxy(k, 1)>>, ta, 443, FALSE) ELSE NoCall]

SpecRetry == InitRetry /\ [][Next]_vars

(* ------------------------- two concurrent calls ------------------------ *)
\* both calls go through one SOCKS4 proxy; the browser's close call may throw
\* for the socket of the first
PairArguments(throws) ==
  Call(<<MkProxy([type |-> "socks4", username |-> "", password |-> ""], 1)>>,
       TargetHost, 443, throws)

InitPair ==
  /\ wire = NoWire
  /\ config = [connectionTimeout |-> ShortStep, totalTimeout |-> TotalCfg,
               maxRetries |-> MaxRetriesCfg]
  /\ activeConnections = {}
  /\ calls = [c \in CallIds |-> IdleCall]
  /\ \E throws \in BOOLEAN :
       inputs = [c \in CallIds |-> IF c = 1 THEN PairArguments(throws) ELSE PairArguments(FALSE)]

\* Next without the steps of the SOCKS5 and HTTP clients, which chains of
\* SOCKS4 proxies never take
NextPair ==
  \/ \E id \in CallIds :
       \/ BuildChain(id)
       \/ SocketCreated(id)
       \/ SocketConnected(id)
       \/ SocketConnectFailed(id)
       \/ Socks4Reply(id)
       \/ SocketError(id)
       \/ BackoffDone(id)
       \/ TotalTimeout(id)
       \/ ConnectionTimeout(id)
       \/ CallerClose(id)
       \/ LateCallback(id)
  \/ CloseAllConnections
  \/ Tick

SpecPair == InitPair /\ [][NextPair]_vars


(* ------------------- target addresses as strings ----------------------- *)
\* A string is the sequence of its characters.
Digits == {"0", "1", "2", "3", "4", "5", "6", "7", "8", "9"}
LowerHex == <<"0", "1", "2", "3", "4", "5", "6", "7", "8", "9", "a", "b", "c", "d", "e", "f">>
UpperHex == <<"A", "B", "C", "D", "E", "F">>
HexDigits == Digits \cup {LowerHex[i] : i \in 11..16} \cup {UpperHex[i] : i \in 1..6}

\* the value of a digit of parseInt
HexValue(ch) ==
  IF \E i \in 1..16 : LowerHex[i] = ch
  THEN (CHOOSE i \in 1..16 : LowerHex[i] = ch) - 1
  ELSE (CHOOSE i \in 1..6 : UpperHex[i] = ch) + 9

\* parseInt(s, radix) of a non-empty string of digits of that radix
RECURSIVE ParseInt(_, _)
ParseInt(s, radix) ==
  IF s = << >> THEN 0
  ELSE ParseInt(SubSeq(s, 1, Len(s) - 1), radix) * radix + HexValue(s[Len(s)])

\* the code point of one of the characters in use ("eacute" is the letter
\* U+00E9); every character is one UTF-16 code unit
CharCode(ch) ==
  CASE ch = "." -> 46
    [] ch = ":" -> 58
    [] ch = "g" -> 103
    [] ch = "eacute" -> 233
    [] ch \in Digits -> 48 + HexValue(ch)
    [] \E i \in 11..16 : LowerHex[i] = ch -> 87 + HexValue(ch)
    [] OTHER -> 55 + HexValue(ch)

\* TextEncoder.encode: UTF-8, one byte for a code point below 0x80 and two
\* for the others in use (all below 0x800)
RECURSIVE Encode(_)
Encode(s) ==
  IF Len(s) = 0 THEN << >>
  ELSE IF Len(s) = 1
  THEN LET c == CharCode(s[1]) IN
       IF c < 128 THEN <<c>> ELSE <<192 + (c \div 64), 128 + (c % 64)>>
  ELSE LET half == Len(s) \div 2 IN
       Encode(SubSeq(s, 1, half)) \o Encode(SubSeq(s, half + 1, Len(s)))

\* String.prototype.split with a one-character separator
Split(s, sep) ==
  LET at == SelectSeq([i \in 1..Len(s) |-> i], LAMBDA i : s[i] = sep)
      cuts == <<0>> \o at \o <<Len(s) + 1>>
  IN [k \in 1..(Len(cuts) - 1) |-> SubSeq(s, cuts[k] + 1, cuts[k + 1] - 1)]

\* new Uint8Array([...]): every value is stored modulo 256
Uint8Array(values) == [i \in 1..Len(values) |-> values[i] % 256]

\* /^(\d{1,3}\.){3}\d{1,3}$/.test(address)
Ipv4Regex(address) ==
  LET parts == Split(address, ".") IN
  /\ Len(parts) = 4
  /\ \A i \in 1..4 :
       /\ Len(parts[i]) \in 1..3
       /\ \A j \in 1..Len(parts[i]) : parts[i][j] \in Digits

\* CHAIN_ENGINE.md isIPv6: /^[0-9a-fA-F:]+$/.test(address) && address.includes(':')
S5IsIPv6(address) ==
  /\ address # << >>
  /\ \A i \in 1..Len(address) : address[i] \in HexDigits \cup {":"}
  /\ \E i \in 1..Len(address) : address[i] = ":"

\* CHAIN_ENGINE.md isIPv4: the pattern alone
S5IsIPv4(address) == Ipv4Regex(address)

\* getAddressType: 4 (IPv6), 1 (IPv4) or 3 (domain), tested in this order
GetAddressType(address) ==
  IF S5IsIPv6(address) THEN 4 ELSE IF S5IsIPv4(address) THEN 1 ELSE 3

\* CHAIN_ENGINE.md ipv4ToBytes
S5Ipv4ToBytes(ipv4) ==
  LET parts == Split(ipv4, ".") IN
  Uint8Array([i \in 1..4 |-> ParseInt(parts[i], 10)])

\* ipv6ToBytes: the groups between colons that are not empty
Ipv6Parts(ipv6) == SelectSeq(Split(ipv6, ":"), LAMBDA part : Len(part) > 0)

\* ipv6ToBytes throws: more than 8 groups, or a group above 0xFFFF
Ipv6Throws(ipv6) ==
  LET parts == Ipv6Parts(ipv6) IN
  Len(parts) > 8 \/ \E i \in 1..Len(parts) : ParseInt(parts[i], 16) > 65535

\* ipv6ToBytes: two bytes for each group, in order, the rest of the 16 bytes zero
Ipv6ToBytes(ipv6) ==
  LET parts == Ipv6Parts(ipv6)
      value(i) == ParseInt(parts[i], 16)
  IN [k \in 1..16 |->
        IF (k + 1) \div 2 > Len(parts) THEN 0
        ELSE IF k % 2 = 1 THEN (value((k + 1) \div 2) \div 256) % 256
        ELSE value((k + 1) \div 2) % 256]

\* authenticateWithPassword up to writeBytes: the request written, or the
\* error thrown; the length tests are on String.length, in UTF-16 code units
S5AuthBytes(username, password) ==
  IF username = << >> THEN [error |-> "InvalidUsername", request |-> << >>]
  ELSE IF password = << >> THEN [error |-> "InvalidPassword", request |-> << >>]
  ELSE IF Len(username) > AuthMaxLength THEN [error |-> "UsernameTooLong", request |-> << >>]
  ELSE IF Len(password) > AuthMaxLength THEN [error |-> "PasswordTooLong", request |-> << >>]
  ELSE LET usernameBytes == Encode(username)
           passwordBytes == Encode(password)
       IN [error |-> "none",
           request |-> Uint8Array(<<1, Len(usernameBytes)>> \o usernameBytes
                                  \o <<Len(passwordBytes)>> \o passwordBytes)]

\* the port of a request, high byte first
PortBytes(port) == <<(port \div 256) % 256, port % 256>>

\* sendConnectRequest up to writeBytes: the request written, or the error thrown
S5ConnectBytes(address, port) ==
  LET addressType == GetAddressType(address)
      addressBytes ==
        IF addressType = 1 THEN S5Ipv4ToBytes(address)
        ELSE IF addressType = 4 THEN Ipv6ToBytes(address)
        ELSE <<Len(Encode(address))>> \o Encode(address)
  IN IF address = << >> THEN [error |-> "InvalidAddress", request |-> << >>]
     ELSE IF ~ValidPort(port) THEN [error |-> "InvalidPort", request |-> << >>]
     ELSE IF addressType = 4 /\ Ipv6Throws(address)
       THEN [error |-> "InvalidIPv6", request |-> << >>]
     ELSE IF addressType = 3 /\ Len(Encode(address)) > 255
       THEN [error |-> "DomainTooLong", request |-> << >>]
     ELSE [error |-> "none",
           request |-> <<5, 1, 0, addressType>> \o addressBytes \o PortBytes(port)]

\* chainEngine.js isIPv4: the pattern and every group in 0..255
S4IsIPv4(address) ==
  Ipv4Regex(address)
  /\ \A i \in 1..4 :
       LET num == ParseInt(Split(address, ".")[i], 10) IN num >= 0 /\ num <= 255

\* chainEngine.js ipv4ToBytes
S4Ipv4ToBytes(ipv4) ==
  LET parts == Split(ipv4, ".") IN
  Uint8Array([i \in 1..Len(parts) |-> ParseInt(parts[i], 10)])

\* SOCKS4Protocol.connect up to writeBytes: the request written, or the
\* error thrown.  An address that is not IPv4 goes out as a SOCKS4a hostname.
\* The packet starts as a Uint8Array(9) of which bytes 0..7 are set, so a
\* zero byte precedes the user id.
S4ConnectBytes(address, port, userid) ==
  LET isSOCKS4a == ~S4IsIPv4(address)
      request == <<4, 1>> \o PortBytes(port)
                 \o (IF isSOCKS4a THEN <<0, 0, 0, 1>> ELSE S4Ipv4ToBytes(address))
                 \o <<0>>
  IN IF address = << >> THEN [error |-> "InvalidAddress", request |-> << >>]
     ELSE IF ~ValidPort(port) THEN [error |-> "InvalidPort", request |-> << >>]
     ELSE [error |-> "none",
           request |-> request
                       \o Encode(userid) \o <<0>>
                       \o (IF isSOCKS4a THEN Encode(address) \o <<0>> ELSE << >>)]

(* ----------------- one protocol client, byte by byte ------------------- *)
\* In SpecWire the variable wire is one protocol client in the middle of its
\* connect call, the socket it reads from, and the server it talks to.  The
\* reply bytes reach the client in 'data' events that cut the byte stream
\* anywhere.  The bytes arrive before any timer of the client expires.
Repeat(s, n) == [i \in 1..(n * Len(s)) |-> s[((i - 1) % Len(s)) + 1]]

\* bytes of an HTTP response, one character each in the status line; "H" is
\* a character of a header line, "X" a byte that follows the blank line
CRLF == <<"CR", "LF">>
StatusLine == <<"H", "T", "T", "P", "/", "1", ".", "1", " ", "2", "0", "0", " ", "O", "K">>
HeaderLine == <<"H">>
HttpHead(line, nh) == line \o CRLF \o Repeat(HeaderLine \o CRLF, nh) \o CRLF
HttpResponse(line, nh, nx) == HttpHead(line, nh) \o Repeat(<<"X">>, nx)

\* first lines a proxy answers with: HTTP/1.1 200 OK, HTTP/1.0 200 with an
\* empty reason, a 407, and lines that are not status lines of HTTP/1.0 or 1.1
StatusLines ==
  { StatusLine,
    <<"H", "T", "T", "P", "/", "1", ".", "0", " ", "2", "0", "0", " ">>,
    <<"H", "T", "T", "P", "/", "1", ".", "1", " ", "4", "0", "7", " ", "A">>,
    <<"H", "T", "T", "P", "/", "1", ".", "1", " ", "2", "0", "0">>,
    <<"H", "T", "T", "P", "/", "1", ".", "2", " ", "2", "0", "0", " ", "O", "K">>,
    <<"H", "T", "T", "P", "/", "1", ".", "1", " ", "2", "0", " ", "O", "K">>,
    <<"h", "t", "t", "p", "/", "1", ".", "1", " ", "2", "0", "0", " ", "O", "K">>,
    <<"H", "T", "T", "P", "/", "1", ".", "1", " ", "2", "0", "0", " ", "O", "LF", "K">> }

\* replies of a SOCKS5 server: method selection, authentication status, and
\* the CONNECT reply: a header, a bound address of the header's type (IPv4
\* 10.0.0.1, the domain name hi, or an IPv6 address) and the port 1080
MethodReplyBytes(sel) == <<5, sel>>
AuthReplyBytes == <<1, 0>>
ConnectReplyBytes(hdr) ==
  hdr \o (CASE hdr[4] = 3 -> <<2, 104, 105>>
            [] hdr[4] = 4 -> <<32, 1, 13, 184, 0, 0, 0, 0, 0, 0, 0, 0, 0, 0, 0, 1>>
            [] OTHER -> <<10, 0, 0, 1>>)
      \o <<4, 56>>

\* a SOCKS5 client called with the address target and with credentials auth
\* ("none", "half": one of username and password, "both") that has written
\* its greeting, and a server that answers the greeting with mrep, an
\* authentication request with arep and a CONNECT request with crep
Socks5Wire(auth, target, mrep, arep, crep) ==
  [use |-> "socks5", auth |-> auth, sel |-> mrep[2], target |-> target,
   replies |-> <<mrep, arep, crep>>, line |-> << >>,
   server |-> IF mrep[2] = 2 THEN <<arep, crep>> ELSE <<crep>>,
   inflight |-> mrep,
   pc |-> "method", need |-> 2, buf |-> << >>, attached |-> 2,
   written |-> <<"greeting">>, got |-> 0, head |-> 0, trailing |-> 0, status |-> 0,
   atyp |-> 0, result |-> [addressType |-> 0, address |-> << >>, port |-> 0],
   error |-> "none", closed |-> FALSE]

\* an HTTP CONNECT client that has written its request, and a proxy that
\* answers with the first line line, nh header lines and the blank line; the
\* peer behind it sends nx bytes more
HttpWire(line, nh, nx) ==
  [use |-> "http", auth |-> "none", sel |-> 0, target |-> << >>,
   replies |-> << >>, line |-> line,
   server |-> << >>,
   inflight |-> HttpResponse(line, nh, nx),
   pc |-> "status", need |-> 0, buf |-> << >>, attached |-> 2,
   written |-> <<"request">>, got |-> 0, head |-> Len(HttpHead(line, nh)), trailing |-> nx,
   status |-> 0,
   atyp |-> 0, result |-> [addressType |-> 0, address |-> << >>, port |-> 0],
   error |-> "none", closed |-> FALSE]

\* writeBytes: the request goes out and the server sends its next reply
WireWrite(w, kind) ==
  IF w.closed \/ w.server = << >>
  THEN [w EXCEPT !.written = Append(@, kind)]
  ELSE [w EXCEPT !.written = Append(@, kind),
                 !.inflight = @ \o Head(w.server),
                 !.server = Tail(@)]

\* a new readBytes(socket, n): its own buffer, its own 'data' and 'error'
\* listeners
Await(w, pc, n) == [w EXCEPT !.pc = pc, !.need = n, !.buf = << >>, !.attached = @ + 2]

WireFail(w, kind) == [w EXCEPT !.pc = "failed", !.error = kind, !.buf = << >>]

\* a client that takes any status of the authentication reply for success
S5ResolvedAnyAuthStatus(w, resp) ==
  CASE w.pc = "method" ->
         IF resp[1] # 5 \/ resp[2] \notin {0, 2}
         THEN WireFail(w, "ProtocolError")
         ELSE IF resp[2] = 2
         THEN IF w.auth # "both"
              THEN WireFail(w, "AuthRequiredButNotProvided")
              ELSE Await(WireWrite(w, "auth"), "auth", 2)
         ELSE Await(WireWrite(w, "connect"), "header", 4)
    [] w.pc = "auth" ->
         IF resp[1] # 1
         THEN WireFail(w, "AuthFailed")
         ELSE Await(WireWrite(w, "connect"), "header", 4)
    [] w.pc = "header" ->
         IF resp[1] # 5 \/ resp[2] # 0 \/ resp[3] # 0
         THEN WireFail(w, "ProtocolError")
         ELSE CASE resp[4] = 1 -> Await([w EXCEPT !.atyp = 1], "addr", 4 + 2)
                [] resp[4] = 4 -> Await([w EXCEPT !.atyp = 4], "addr", 16 + 2)
                [] resp[4] = 3 -> Await([w EXCEPT !.atyp = 3], "domlen", 1)
                [] OTHER -> WireFail(w, "ProtocolError")
    [] w.pc = "domlen" -> Await(w, "addr", resp[1] + 2)
    [] OTHER -> [w EXCEPT !.pc = "done", !.buf = << >>,
                          !.result = [addressType |-> w.atyp, address |-> w.target,
                                      port |-> resp[w.need - 1] * 256 + resp[w.need]]]

\* the code of SOCKS5Protocol that runs when a readBytes resolves with resp;
\* sendConnectRequest returns the address type and port of the reply and
\* the address it was called with
S5Resolved(w, resp) ==
  CASE w.pc = "method" ->
         IF resp[1] # 5 \/ resp[2] \notin {0, 2}
         THEN WireFail(w, "ProtocolError")
         ELSE IF resp[2] = 2
         THEN IF w.auth # "both"
              THEN WireFail(w, "AuthRequiredButNotProvided")
              ELSE Await(WireWrite(w, "auth"), "auth", 2)
         ELSE Await(WireWrite(w, "connect"), "header", 4)
    [] w.pc = "auth" ->
         IF resp[1] # 1 \/ resp[2] # 0
         THEN WireFail(w, "AuthFailed")
         ELSE Await(WireWrite(w, "connect"), "header", 4)
    [] w.pc = "header" ->
         IF resp[1] # 5 \/ resp[2] # 0 \/ resp[3] # 0
         THEN WireFail(w, "ProtocolError")
         ELSE CASE resp[4] = 1 -> Await([w EXCEPT !.atyp = 1], "addr", 4 + 2)
                [] resp[4] = 4 -> Await([w EXCEPT !.atyp = 4], "addr", 16 + 2)
                [] resp[4] = 3 -> Await([w EXCEPT !.atyp = 3], "domlen", 1)
                [] OTHER -> WireFail(w, "ProtocolError")
    [] w.pc = "domlen" -> Await(w, "addr", resp[1] + 2)
    [] OTHER -> [w EXCEPT !.pc = "done", !.buf = << >>,
                          !.result = [addressType |-> w.atyp, address |-> w.target,
                                      port |-> resp[w.need - 1] * 256 + resp[w.need]]]

\* readBytes' handleData: the chunk is appended to what this read has
\* gathered; with length bytes or more the read resolves with the first
\* length bytes, and what the chunk held beyond them is dropped; both
\* listeners of this readBytes are removed
ReadBytesData(w, chunk) ==
  LET data == w.buf \o chunk
  IN IF Len(data) >= w.need
     THEN S5Resolved([w EXCEPT !.attached = @ - 2], SubSeq(data, 1, w.need))
     ELSE [w EXCEPT !.buf = data]

\* buffer.indexOf('\r\n'), counted from 1; 0 when there is none
CrlfIndex(buffer) ==
  LET found == { k \in 1..(Len(buffer) - 1) : buffer[k] = "CR" /\ buffer[k + 1] = "LF" }
  IN IF found = {} THEN 0 ELSE CHOOSE k \in found : \A j \in found : k <= j

\* a pattern that takes any digit for the minor version
StatusMatchAnyVersion(line) ==
  /\ Len(line) >= 13
  /\ SubSeq(line, 1, 7) = <<"H", "T", "T", "P", "/", "1", ".">>
  /\ line[8] \in Digits
  /\ line[9] = " "
  /\ \A j \in 10..12 : line[j] \in Digits
  /\ line[13] = " "
  /\ \A j \in 14..Len(line) : line[j] \notin {"CR", "LF"}

\* statusLine.match(/^HTTP\/1\.[01] (\d{3}) (.*)$/) is not null; the dot
\* takes no line terminator
StatusMatch(line) ==
  /\ Len(line) >= 13
  /\ SubSeq(line, 1, 7) = <<"H", "T", "T", "P", "/", "1", ".">>
  /\ line[8] \in {"0", "1"}
  /\ line[9] = " "
  /\ \A j \in 10..12 : line[j] \in Digits
  /\ line[13] = " "
  /\ \A j \in 14..Len(line) : line[j] \notin {"CR", "LF"}

\* the code of _sendConnectRequest that runs when a readLine resolves: the
\* next readLine attaches a 'data' and an 'error' listener, readRemainingData
\* a 'data', a 'close' and an 'error' listener
HttpLine(w, line) ==
  IF w.pc = "status"
  THEN IF StatusMatch(line)
       THEN [w EXCEPT !.status = ParseInt(SubSeq(line, 10, 12), 10), !.pc = "headers",
                      !.buf = << >>, !.attached = @ + 2]
       ELSE WireFail(w, "ProtocolError")
  ELSE IF line # << >>
       THEN [w EXCEPT !.buf = << >>, !.attached = @ + 2]
       ELSE IF w.status = 200
       THEN [w EXCEPT !.pc = "drain", !.buf = << >>, !.attached = @ + 3]
       ELSE WireFail(w, "NegotiationRejected")

\* readLine's onData: the chunk is appended to the buffer of this readLine;
\* with a CRLF in it the read resolves with what precedes the CRLF, and what
\* the buffer holds beyond the CRLF is dropped; of the two listeners of this
\* readLine the 'data' listener is removed
ReadLineData(w, chunk) ==
  LET buffer == w.buf \o chunk
      k == CrlfIndex(buffer)
  IN IF k = 0
     THEN [w EXCEPT !.buf = buffer]
     ELSE HttpLine([w EXCEPT !.attached = @ - 1], SubSeq(buffer, 1, k - 1))

\* a 'data' event reaching the listener that is installed
OnData(w, chunk) ==
  CASE w.use = "socks5" -> ReadBytesData(w, chunk)
    [] w.pc \in {"status", "headers"} -> ReadLineData(w, chunk)
    [] OTHER -> [w EXCEPT !.buf = @ \o chunk]   \* readRemainingData's onData: data += chunk

Waiting(w) == w.use \in {"socks5", "http"} /\ w.pc \notin {"done", "failed"}

Still == UNCHANGED <<config, activeConnections, calls, inputs>>

\* the socket's onReceive: the next k bytes arrive in one 'data' event
WireData ==
  /\ Waiting(wire) /\ ~wire.closed
  /\ \E k \in 1..Len(wire.inflight) :
       wire' = OnData([wire EXCEPT !.inflight = SubSeq(@, k + 1, Len(@)), !.got = @ + k],
                      SubSeq(wire.inflight, 1, k))
  /\ Still

\* readLine's 30 s timer, with foundCRLF false: both listeners of this
\* readLine are removed
WireReadLineTimeout ==
  /\ Waiting(wire) /\ wire.use = "http" /\ wire.pc \in {"status", "headers"}
  /\ wire.inflight = << >>
  /\ wire' = WireFail([wire EXCEPT !.attached = @ - 2], "Timeout")
  /\ Still

\* readRemainingData's timer: _sendConnectRequest returns.  The initial
\* timer removes the 'data' and the 'close' listener; the timer that onData
\* has set in its place removes the 'data' listener
WireDrainTimeout ==
  /\ Waiting(wire) /\ wire.pc = "drain"
  /\ wire' = [wire EXCEPT !.pc = "done", !.buf = << >>,
                          !.attached = IF wire.buf = << >> THEN @ - 2 ELSE @ - 1]
  /\ Still

\* the peer closes the stream: the WebSocket's onclose clears connected and
\* emits 'closed', which no read helper listens to (readRemainingData
\* listens to 'close')
WirePeerClosed ==
  /\ Waiting(wire) /\ ~wire.closed
  /\ wire' = [wire EXCEPT !.closed = TRUE, !.inflight = << >>]
  /\ Still

InitWire ==
  /\ config = [connectionTimeout |-> ShortStep, totalTimeout |-> TotalCfg,
               maxRetries |-> MaxRetriesCfg]
  /\ activeConnections = {}
  /\ calls = [c \in CallIds |-> IdleCall]
  /\ inputs = [c \in CallIds |-> NoCall]
  /\ wire \in { Socks5Wire(auth, target, mrep, arep, ConnectReplyBytes(hdr)) :
                  auth \in {"none", "half", "both"},
                  target \in { <<"h", "i">>, <<"1", "0", ".", "0", ".", "0", ".", "1">> },
                  mrep \in { MethodReplyBytes(sel) : sel \in {0, 2, 1, 255} } \cup { <<4, 0>> },
                  arep \in { AuthReplyBytes, <<1, 1>>, <<5, 0>> },
                  hdr \in { <<5, 0, 0, 1>>, <<5, 0, 0, 3>>, <<5, 0, 0, 4>>, <<5, 1, 0, 1>>,
                            <<4, 0, 0, 1>>, <<5, 0, 1, 1>>, <<5, 0, 0, 2>> } }
              \cup { HttpWire(line, nh, nx) :
                       line \in StatusLines, nh \in 0..MaxHeaders, nx \in 0..MaxTrailing }

NextWire ==
  \/ WireData
  \/ WireReadLineTimeout
  \/ WireDrainTimeout
  \/ WirePeerClosed

SpecWire == InitWire /\ [][NextWire]_vars


(* ---------------- the clients' handling of an address ------------------ *)
\* the groups an address is put together from
Groups ==
  { << >>, <<"1">>, <<"2", "5", "5">>, <<"9", "9", "9">>, <<"1", "2", "3", "4", "5">>,
    <<"a">>, <<"g">> }

RECURSIVE Join(_, _)
Join(gs, sep) ==
  IF Len(gs) = 1 THEN gs[1] ELSE gs[1] \o <<sep>> \o Join(Tail(gs), sep)

\* non-empty target addresses: 1..MaxGroups groups joined by dots or by colons
Addresses ==
  { Join(gs, sep) :
      gs \in UNION { [1..n -> Groups] : n \in 1..MaxGroups }, sep \in {".", ":"} }
  \ { << >> }

\* a client about to be called with a string: a target address, or a username
AddrWire(address) ==
  [use |-> "addr", address |-> address, password |-> << >>, pc |-> "new",
   error |-> "none", request |-> << >>]

\* SOCKS5Protocol.sendConnectRequest is called with the address and port 443
AddrSocks5 ==
  /\ wire.use = "addr" /\ wire.pc = "new"
  /\ LET r == S5ConnectBytes(wire.address, 443) IN
     wire' = [wire EXCEPT !.pc = "socks5", !.error = r.error, !.request = r.request]
  /\ Still

\* SOCKS4Protocol.connect is called with the address, port 443 and no auth
AddrSocks4 ==
  /\ wire.use = "addr" /\ wire.pc = "new"
  /\ LET r == S4ConnectBytes(wire.address, 443, << >>) IN
     wire' = [wire EXCEPT !.pc = "socks4", !.error = r.error, !.request = r.request]
  /\ Still

\* SOCKS5Protocol.authenticateWithPassword is called with the string as the
\* username and a password that is empty, one character, or 128 characters
\* of two bytes each
AddrAuth ==
  /\ wire.use = "addr" /\ wire.pc = "new"
  /\ \E password \in {<< >>, <<"1">>, Repeat(<<"eacute">>, (AuthMaxLength + 1) \div 2)} :
       LET r == S5AuthBytes(wire.address, password) IN
       wire' = [wire EXCEPT !.pc = "auth", !.password = password, !.error = r.error,
                            !.request = r.request]
  /\ Still

InitAddr ==
  /\ config = [connectionTimeout |-> ShortStep, totalTimeout |-> TotalCfg, maxRetries |-> 0]
  /\ activeConnections = {}
  /\ calls = [c \in CallIds |-> IdleCall]
  /\ inputs = [c \in CallIds |-> NoCall]
  /\ wire \in { AddrWire(a) :
                  a \in Addresses
                       \cup { << >>, Repeat(<<"a">>, AuthMaxLength),
                              Repeat(<<"a">>, AuthMaxLength + 1),
                              Repeat(<<"eacute">>, (AuthMaxLength + 1) \div 2),
                              Repeat(<<"eacute">>, AuthMaxLength) } }

NextAddr == AddrSocks5 \/ AddrSocks4 \/ AddrAuth

SpecAddr == InitAddr /\ [][NextAddr]_vars

(* --------------------------- the storage module ------------------------ *)
\* In SpecStore the variable wire is chrome.storage.local as storage.js uses
\* it, and two callers of the module.  wire.chains is the stored chain list,
\* a chain being its id; wire.active is the stored settings.activeChainId,
\* 0 for null.  An operation of a caller holds the function called (kind),
\* its argument (arg), the storage call it awaits (pc), and its local chain
\* list (chains) and settings.activeChainId (active).

\* the storage call an operation awaits completes, and the function runs on
\* to its next storage call or to its end
StoreStep(st, k) ==
  LET op == st.ops[k]
      has(chains, id) == \E i \in 1..Len(chains) : chains[i] = id
      go(pc) == [st EXCEPT !.ops[k].pc = pc]
  IN CASE op.pc = "loadChains" /\ op.kind = "saveChain" ->
            \* chains[existingIndex] = chain, or chains.push(chain)
            [st EXCEPT !.ops[k].pc = "setChains",
                       !.ops[k].chains = IF has(st.chains, op.arg) THEN st.chains
                                         ELSE Append(st.chains, op.arg)]
       [] op.pc = "loadChains" /\ op.kind = "deleteChain" ->
            LET filteredChains == SelectSeq(st.chains, LAMBDA c : c # op.arg) IN
            IF Len(filteredChains) = Len(st.chains)
            THEN go("done")
            ELSE [st EXCEPT !.ops[k].pc = "setChains", !.ops[k].chains = filteredChains]
       [] op.pc = "setChains" ->
            [st EXCEPT !.chains = op.chains,
                       !.ops[k].pc = IF op.kind = "saveChain" THEN "done" ELSE "getSettings"]
       [] op.pc = "getSettings" /\ op.kind = "deleteChain" ->
            \* settings.activeChainId = null; await setSettings(settings)
            IF st.active = op.arg
            THEN [st EXCEPT !.ops[k].active = 0, !.ops[k].pc = "setSettings"]
            ELSE go("done")
       [] op.pc = "findChainById" ->
            IF has(st.chains, op.arg) THEN go("getSettings") ELSE go("failed")
       [] op.pc = "getSettings" ->
            \* setActiveChain: settings.activeChainId = chainId; await setSettings(settings)
            [st EXCEPT !.ops[k].active = op.arg,
                       !.ops[k].pc = IF op.arg = 0 THEN "setSettings" ELSE "validate"]
       [] op.pc = "validate" ->
            \* setSettings: findChainById(settings.activeChainId)
            IF has(st.chains, op.active) THEN go("setSettings") ELSE go("failed")
       [] OTHER ->
            \* setSettings: chrome.storage.local.set of the settings object
            [st EXCEPT !.active = op.active, !.ops[k].pc = "done"]

\* a caller that awaits no call calls saveChain, deleteChain, setActiveChain
\* or setSettings; the function runs up to its first storage call
StoreCall(k) ==
  /\ wire.ops[k].pc \in {"idle", "done", "failed"}
  /\ \E kind \in {"saveChain", "deleteChain", "setActiveChain", "setSettings"},
        arg \in 0..MaxChainId :
       /\ kind \in {"saveChain", "deleteChain"} => arg # 0
       /\ wire' = [wire EXCEPT !.ops[k] =
            [kind |-> kind, arg |-> arg, chains |-> << >>,
             active |-> IF kind = "setSettings" THEN arg ELSE 0,
             pc |-> CASE kind \in {"saveChain", "deleteChain"} -> "loadChains"
                      [] kind = "setActiveChain" ->
                           IF arg = 0 THEN "getSettings" ELSE "findChainById"
                      [] OTHER -> IF arg = 0 THEN "setSettings" ELSE "validate"]]
  /\ Still

\* chrome.storage.local completes the call that caller k awaits
StoreRun(k) ==
  /\ wire.ops[k].pc \notin {"idle", "done", "failed"}
  /\ wire' = StoreStep(wire, k)
  /\ Still

\* storage as initializeStorage leaves it: no chains, no active chain
InitStore ==
  /\ config = [connectionTimeout |-> ShortStep, totalTimeout |-> TotalCfg, maxRetries |-> 0]
  /\ activeConnections = {}
  /\ calls = [c \in CallIds |-> IdleCall]
  /\ inputs = [c \in CallIds |-> NoCall]
  /\ wire = [use |-> "store", chains |-> << >>, active |-> 0,
             ops |-> [k \in 1..2 |->
                       [kind |-> "none", arg |-> 0, chains |-> << >>, active |-> 0,
                        pc |-> "idle"]]]

NextStore == \E k \in 1..2 : StoreCall(k) \/ StoreRun(k)

SpecStore == InitStore /\ [][NextStore]_vars

(* ------------------------------- claims -------------------------------- *)
Negotiating(r) == r.pc \in {"reading", "backoff", "draining"}

\* the step of call c is the catch block of the retry loop taking an error
Failed(c) ==
  /\ calls'[c].lastFail # calls[c].lastFail
  /\ calls'[c].lastFail.kind # "none"

\* the step of call c makes a protocolHandler.connect call
Connects(c) == calls'[c].request # calls[c].request

\* C1: a successful buildChain over N >= 1 hops returns a report with exactly
\* N+1 step records, indexed 1..N+1 in order, the first a direct open and the
\* last of kind proxy_to_target, and the socket it returns is connected.
C1_StepRecords ==
  \A c \in CallIds :
    calls[c].outer = "resolved" =>
      LET r == calls[c]
          n == Len(r.chain)
      IN /\ Len(r.steps) = n + 1
         /\ \A k \in 1..Len(r.steps) : r.steps[k].step = k
         /\ r.steps[1].type = "direct"
         /\ r.steps[Len(r.steps)].type = "proxy_to_target"
         /\ r.connected

\* C2: when buildChain has rejected because opening hop 1 or negotiating a
\* hop raised an error, the transport of that attempt is closed (the socket
\* is not connected and no underlying socket is left open) and it is not in
\* activeConnections.
C2_FailureClosesTransport ==
  \A c \in CallIds :
    (calls[c].outer = "rejected"
       /\ calls[c].error \notin {"Timeout", "InvalidChain", "InvalidTarget"}) =>
      /\ ~calls[c].connected
      /\ calls[c].res # "open"
      /\ c \notin activeConnections

\* C3: when buildChain has rejected with the total timeout, no tunnel is
\* returned and the transport opened for the attempt is closed and absent
\* from activeConnections.
C3_TimeoutClosesTransport ==
  \A c \in CallIds :
    (calls[c].outer = "rejected" /\ calls[c].error = "Timeout") =>
      /\ ~calls[c].connected
      /\ calls[c].res # "open"
      /\ c \notin activeConnections

\* C4: once buildChain has rejected, nothing more happens on the attempt's
\* transport: no handshake message is written, no connect call (retry or
\* later hop) is made, and no fully negotiated open socket that no caller
\* received is left in activeConnections.
C4_NoActivityAfterReject ==
  [][\A c \in CallIds :
       calls[c].outer = "rejected" =>
         /\ calls'[c].lastWrite = calls[c].lastWrite
         /\ ~Connects(c)
         /\ ~(calls'[c].pc = "returned" /\ calls'[c].connected
                /\ c \in activeConnections')]_vars

\* C5: one transport per buildChain; the hops are negotiated in order on
\* it, hop i+1 only after hop i succeeded; hop i is asked for the address and
\* port of proxies[i+1] when i < N and for the target when i = N, through the
\* protocol client of proxies[i].type.
C5_HopOrderAndEndpoints ==
  [][\A c \in CallIds :
       LET r == calls[c]
           q == calls'[c]
           n == Len(q.chain)
           h == q.request.hop
           t == IF h \in 1..n THEN q.chain[h].type ELSE "none"
       IN /\ q.opened <= 1
          /\ Connects(c) =>
               /\ q.opened = 1
               /\ h \in 1..n
               /\ \/ /\ h = r.request.hop + 1
                     /\ q.request.attempt = 1
                     /\ \/ h = 1 /\ r.pc \in {"connecting", "wsopening"}
                        \/ r.pc = "draining"
                        \/ r.pc = "reading" /\ r.phase \in {"s5_connect", "s4_reply"}
                  \/ /\ h = r.request.hop
                     /\ r.pc = "backoff"
                     /\ q.request.attempt = r.request.attempt + 1
               /\ q.request.address = IF h < n THEN q.chain[h + 1].address ELSE q.targetAddress
               /\ q.request.port = IF h < n THEN q.chain[h + 1].port ELSE q.targetPort
               /\ q.request.handler =
                    (CASE t \in {"socks5"} -> "SOCKS5Protocol"
                       [] t \in {"socks4"} -> "SOCKS4Protocol"
                       [] t \in {"http", "HTTP", "https", "HTTPS"} -> "HttpConnectProtocol"
                       [] OTHER -> "unsupported")]_vars

\* the last hop of a two-proxy chain has been asked for the target
C5_Reached ==
  \E c \in CallIds :
    /\ Len(calls[c].chain) = 2
    /\ calls[c].request.hop = 2
    /\ calls[c].request.address = TargetHost
    /\ calls[c].outer = "resolved"

\* C6: per hop, connect is called at most 1 + maxRetries times; when the
\* last of these calls fails the hop fails and buildChain is rejected; a
\* further call for the same hop is made only after a failed one.
C6_RetryBudget ==
  [][\A c \in CallIds :
       LET r == calls[c]
           q == calls'[c]
       IN /\ q.nAttempts <= 1 + config.maxRetries
          /\ (Connects(c) /\ q.request.hop = r.request.hop) =>
               r.pc = "backoff" /\ r.lastFail.hop = r.request.hop
          /\ (Connects(c) /\ q.request.hop # r.request.hop) => q.nAttempts = 1
          /\ (Failed(c) /\ q.lastFail.attempt = 1 + config.maxRetries) =>
               q.pc = "threw" /\ q.outer = "rejected"
          /\ (Failed(c) /\ q.lastFail.attempt < 1 + config.maxRetries) =>
               q.pc = "backoff"]_vars

\* every allowed connect call of a hop failed and buildChain was rejected
C6_Reached ==
  \E c \in CallIds :
    /\ config.maxRetries = MaxRetriesCfg
    /\ calls[c].nAttempts = 1 + config.maxRetries
    /\ calls[c].pc = "threw"
    /\ calls[c].lastFail.kind = "NegotiationRejected"

\* C7: after a connect call for hop i failed having read bytes from the
\* stream, no further handshake message for hop i is written to it.
C7_NoRetryAfterConsumedBytes ==
  [][\A c \in CallIds :
       (calls[c].pc = "backoff" /\ calls[c].lastFail.consumed) =>
         calls'[c].lastWrite = calls[c].lastWrite]_vars

\* C8: only a negotiation rejection or an I/O error is retried; an error of
\* any other kind ends the hop at once, with no backoff sleep.
C8_OnlyRejectionAndIOErrorRetried ==
  [][\A c \in CallIds :
       (Failed(c) /\ calls'[c].lastFail.kind \notin {"NegotiationRejected", "IOError"}) =>
         calls'[c].pc = "threw"]_vars

\* C9: a connect call whose hop does not reply is failed once
\* connectionTimeout (or totalTimeout, if that is shorter) has passed since
\* it began: no read stays pending beyond that while buildChain is pending.
C9_StepTimeout ==
  \A c \in CallIds :
    (calls[c].pc = "reading" /\ calls[c].outer = "pending") =>
      /\ calls[c].elapsed <= config.connectionTimeout
      /\ calls[c].elapsed <= config.totalTimeout

C11_CloseAllConnections ==
  [][CloseAllConnections =>
       /\ activeConnections' = {}
       /\ \A c \in activeConnections :
            /\ ~calls'[c].connected
            /\ calls'[c].closeCalls >= 1
            /\ (~calls[c].closeThrows => calls'[c].res # "open")
       /\ \A c \in CallIds \ activeConnections : calls'[c] = calls[c]
       /\ ClosedAll(calls', activeConnections') =
            [calls |-> calls', active |-> activeConnections']
       /\ GetStats(activeConnections').activeConnections = 0]_vars

\* closeAllConnections has emptied a set of two tunnels, the close of one of
\* which threw
C11_Reached ==
  /\ activeConnections = {}
  /\ \A c \in CallIds : calls[c].outer = "resolved" /\ calls[c].closeCalls = 1
                          /\ ~calls[c].connected
  /\ calls[1].closeThrows /\ calls[1].res = "open"
  /\ calls[2].res = "closed" /\ calls[2].closedEvents = 1

\* C12: TCPSocket.close is idempotent: on a socket that close() has been
\* called on, a further close() leaves every field as it is, and over the
\* life of a socket close() releases the underlying resource at most once
\* and emits 'closed' at most once, however often it is called.
C12_CloseIdempotent ==
  \A c \in CallIds :
    calls[c].closeCalls >= 1 =>
      /\ SocketClose(calls[c]) = calls[c]
      /\ calls[c].released <= 1
      /\ calls[c].closedEvents <= 1

\* close() has been called twice on a socket that was connected
C12_Reached ==
  \E c \in CallIds :
    /\ calls[c].closeCalls = 2
    /\ calls[c].released = 1 /\ calls[c].closedEvents = 1
    /\ calls[c].res = "closed"

\* C13: close() releases the underlying resource from every state: whatever
\* state a socket is in, after close() its socket id is not left open, and
\* when the connect of a socket has failed and buildChain's internal call
\* has thrown, the socket id that was created is not left open either (a
\* WebSocket that is still opening has no socket id and is left aside).
C13_CloseReleasesHalfOpen ==
  \A c \in CallIds :
    /\ calls[c].pc # "wsopening" => SocketClose(calls[c]).res # "open"
    /\ (calls[c].pc = "threw" /\ ~calls[c].currentSocket) => calls[c].res # "open"

\* what the engine can do to a socket: read from it (a protocol client is
\* suspended in a read), write to it, close it
SocketUse(r) ==
  [connected |-> r.connected, res |-> r.res, lastWrite |-> r.lastWrite,
   closeCalls |-> r.closeCalls, closedEvents |-> r.closedEvents, released |-> r.released,
   pc |-> r.pc, phase |-> r.phase, waitT |-> r.waitT]

\* C14: once buildChain has resolved with a tunnel, no step other than
\* closeAllConnections (and the caller's own close) reads from, writes to or
\* closes its socket: the total timeout timer and the callbacks left over
\* from the negotiation run without acting on it.
C14_ReturnedTunnelUntouched ==
  [][\A c \in CallIds :
       calls[c].outer = "resolved" =>
         \/ CloseAllConnections
         \/ CallerClose(c)
         \/ SocketUse(calls'[c]) = SocketUse(calls[c])]_vars

\* the total timeout timer has fired after buildChain returned the tunnel,
\* which is still connected and was never closed
C14_Reached ==
  \E c \in CallIds :
    /\ calls[c].outer = "resolved"
    /\ calls[c].totalT = Off
    /\ calls[c].connected /\ calls[c].closeCalls = 0
    /\ c \in activeConnections

\* buildChain call c has settled and nothing of its negotiation is still running
Finished(c) ==
  /\ calls[c].outer \in {"resolved", "rejected"}
  /\ calls[c].pc \in {"returned", "threw"}

\* C15: when two concurrent buildChain calls have both finished, every
\* socket in activeConnections is the tunnel of a call that succeeded: a
\* call that failed or timed out has removed its own transport.
C15_OnlySucceededRegistered ==
  (\A c \in CallIds : Finished(c)) =>
    \A c \in activeConnections : calls[c].outer = "resolved"

\* buildChain has thrown the error of its catch block, which names a step
Reported(r) == r.outer = "rejected" /\ r.error \notin {"InvalidChain", "InvalidTarget"}

\* C16: when buildChain fails, the step index its error names is not 0, and
\* when a hop was being negotiated it is the number of that hop.
C16_ErrorNamesFailingHop ==
  [][\A c \in CallIds :
       (calls[c].outer # "rejected" /\ Reported(calls'[c])) =>
         /\ calls'[c].failStep # 0
         /\ calls'[c].i >= 1 => calls'[c].failStep = calls'[c].i]_vars

\* C17: when buildChain has failed, the step list of its report
\* (connectionInfo.steps) ends with a record of the failing step that
\* carries the error, that is, a record that is not a success.
C17_ReportEndsWithError ==
  \A c \in CallIds :
    calls[c].outer = "rejected" =>
      /\ Len(calls[c].steps) >= 1
      /\ ~calls[c].steps[Len(calls[c].steps)].success

\* the replies a protocol client can read in a phase of its handshake
Replies(phase) ==
  CASE phase = "s5_method" -> {"m00", "m02", "mFF", "bad"}
    [] phase = "s5_auth" -> {"ok", "fail", "bad"}
    [] phase \in {"s5_connect", "s4_reply"} -> {"ok", "rep", "bad"}
    [] phase = "http_status" -> {"200", "407", "bad"}
    [] phase = "http_headers" -> {"header", "blank"}
    [] OTHER -> {"none"}

\* what the code of call id does next in state w: the protocol client takes
\* reply m, the retry loop starts its next pass, the direct connection opens
EngineStep(id, w, m) ==
  CASE w.c.pc = "reading" /\ w.c.phase = "s5_method" -> S5MethodSelected(id, w, m)
    [] w.c.pc = "reading" /\ w.c.phase = "s5_auth" -> S5AuthAnswered(id, w, m)
    [] w.c.pc = "reading" /\ w.c.phase \in {"s5_connect", "s4_reply"} -> ConnectAnswered(id, w, m)
    [] w.c.pc = "reading" /\ w.c.phase = "http_status" -> HttpStatusRead(id, w, m)
    [] w.c.pc = "reading" /\ w.c.phase = "http_headers" -> HttpHeaderRead(id, w, m)
    [] w.c.pc = "backoff" -> Attempt(id, [w EXCEPT !.c.waitT = Off])
    [] w.c.pc = "draining" -> AttemptSucceeded(id, [w EXCEPT !.c.waitT = Off])
    [] w.c.pc \in {"connecting", "wsopening"} -> DirectConnected(id, [w EXCEPT !.c.connected = TRUE])
    [] OTHER -> w

\* the error text a call has produced: the error in hand in the retry loop
\* and the error buildChain has thrown
ErrorText(r) ==
  [attempt |-> r.lastFail.kind, thrown |-> r.error, step |-> r.failStep, outer |-> r.outer]

\* another username or password of the same shape
OtherValue(s) ==
  CASE s = "u" -> "v"
    [] s = "p" -> "q"
    [] s = "u256" -> "v256"
    [] s = "uwide" -> "vwide"
    [] OTHER -> s

\* the state of a run that differs in the values of the credentials only
Renamed(r) ==
  [r EXCEPT !.chain = [j \in 1..Len(r.chain) |->
                         [r.chain[j] EXCEPT !.username = OtherValue(@),
                                            !.password = OtherValue(@)]],
            !.lastWrite = [@ EXCEPT !.msg = [@ EXCEPT !.username = OtherValue(@),
                                                      !.password = OtherValue(@)]]]

\* the state of a run whose hops carry no credentials
Stripped(r) ==
  [r EXCEPT !.chain = [j \in 1..Len(r.chain) |->
                         [r.chain[j] EXCEPT !.username = "", !.password = ""]]]

\* C18 as stated: the error text does not depend on the credentials of the
\* hops.  Of two runs that are waiting for the first reply of the first hop,
\* one with the credentials of the chain, one with other credentials or with
\* none, both produce the same error text on every reply.
C18_ErrorTextIgnoresCredentials ==
  \A c \in CallIds :
    (calls[c].pc = "reading" /\ calls[c].i = 1 /\ calls[c].nAttempts = 1
       /\ calls[c].phase \in {"s5_method", "s4_reply", "http_status"}) =>
      \A m \in Replies(calls[c].phase) :
        \A other \in {Renamed(calls[c]), Stripped(calls[c])} :
          ErrorText(EngineStep(c, [W(c) EXCEPT !.c = other], m).c)
            = ErrorText(EngineStep(c, W(c), m).c)

\* C18, amended: the error text depends on the credentials only through
\* their shape.  From every state, a run with the credentials of the chain
\* and a run with other values of the same shapes take the same step on the
\* same reply: the same error text, and states that again differ in the
\* values of the credentials only.
C18_ErrorTextIgnoresCredentialValues ==
  \A c \in CallIds :
    \A m \in Replies(calls[c].phase) :
      LET own == EngineStep(c, W(c), m)
          other == EngineStep(c, [W(c) EXCEPT !.c = Renamed(calls[c])], m)
      IN /\ ErrorText(other.c) = ErrorText(own.c)
         /\ other.c = Renamed(own.c)
         /\ other.a = own.a

\* a SOCKS5 proxy has refused the credentials of a hop and buildChain has
\* thrown the error
C18_Reached ==
  \E c \in CallIds :
    /\ calls[c].outer = "rejected" /\ calls[c].error = "AuthFailed"
    /\ calls[c].chain[calls[c].i].username = "u"
    /\ calls[c].lastWrite.msg.kind = "auth" /\ calls[c].lastWrite.msg.username = "u"

\* a SOCKS5Protocol object as its constructor leaves it
FreshProto == [authenticated |-> FALSE]

\* the SOCKS5 message of a kind that a new client writes for a hop, from the
\* credentials of the hop and the endpoint it is asked to reach
FirstWritten(kind, proxy, ep) ==
  CASE kind = "greeting" -> S5Greeting(FreshProto, RequiresAuth(EngineAuth(proxy)))
    [] kind = "auth" -> S5AuthRequest(FreshProto, proxy.username, proxy.password)
    [] OTHER -> S5ConnectRequest(FreshProto, ep.address, ep.port)

\* C19: every greeting, authentication request and CONNECT request the
\* SOCKS5 client has put on the wire, on the first attempt or on a retry and
\* whatever an earlier connect left in the protocol object, is the message a
\* new client writes for the same credentials, target address and port.
C19_Socks5BytesDeterministic ==
  \A c \in CallIds :
    LET r == calls[c]
        lw == r.lastWrite
    IN lw.msg.kind \in {"greeting", "auth", "connect"} =>
         lw.msg = FirstWritten(lw.msg.kind, r.chain[lw.hop],
                               NextEndpoint(r.chain, lw.hop, r.targetAddress, r.targetPort))

\* a retry has written its greeting with a protocol object that an earlier
\* attempt had authenticated
C19_Reached ==
  \E c \in CallIds :
    /\ calls[c].lastWrite.msg.kind = "greeting"
    /\ calls[c].lastWrite.attempt >= 2
    /\ calls[c].lastWrite.msg.methods = <<0, 2>>
    /\ calls[c].authenticated
    /\ calls[c].pc = "reading"

\* the methods a greeting offers
Offered(msg) == { msg.methods[k] : k \in 1..Len(msg.methods) }

\* C20: the greeting of a SOCKS5 hop always offers method 0x00,
\* offers method 0x02 if and only if the hop descriptor carries a username
\* or a password, and its nmethods is the number of methods it lists.
C20_AuthOfferedIffEitherCredential ==
  \A c \in CallIds :
    LET msg == calls[c].lastWrite.msg
        proxy == calls[c].chain[calls[c].lastWrite.hop]
    IN msg.kind = "greeting" =>
         /\ 0 \in Offered(msg)
         /\ 2 \in Offered(msg) <=> (proxy.username # "" \/ proxy.password # "")
         /\ msg.nmethods = Len(msg.methods)

\* the requests a SOCKS5 client is to write for the method the server selects
ExpectedWritten(w) ==
  IF w.sel = 2 THEN <<"greeting", "auth", "connect">> ELSE <<"greeting", "connect">>

\* a SOCKS5 server that selects a method the client has offered and answers
\* every request with a well-formed success reply
WellFormedReplies(w) ==
  /\ w.replies[1] \in {<<5, 0>>, <<5, 2>>}
  /\ w.replies[1][2] = 2 => w.auth = "both"
  /\ w.replies[2] = <<1, 0>>
  /\ SubSeq(w.replies[3], 1, 3) = <<5, 0, 0>>
  /\ w.replies[3][4] \in {1, 3, 4}

\* C21: against a SOCKS5 server that answers every request with a
\* well-formed success reply, however the reply bytes are cut into 'data'
\* events, the client does not fail, writes nothing but the greeting, the
\* authentication request and the CONNECT request in that order, and once
\* every reply byte has been delivered connect has returned success.
C21_Socks5SucceedsOnAnyChunking ==
  (wire.use = "socks5" /\ ~wire.closed /\ WellFormedReplies(wire)) =>
    /\ wire.pc # "failed"
    /\ \E n \in 1..3 : wire.written = SubSeq(ExpectedWritten(wire), 1, n)
    /\ (wire.inflight = << >> /\ wire.server = << >>) =>
         (wire.pc = "done" /\ wire.written = ExpectedWritten(wire))

\* C22: against an HTTP proxy that answers the CONNECT request with a 200
\* status line, header lines and the blank line, however the response bytes
\* are cut into 'data' events, the client does not fail, and once every byte
\* of the response has been delivered it has read the blank line.
C22_HttpSucceedsOnAnyChunking ==
  (wire.use = "http" /\ ~wire.closed /\ wire.trailing = 0 /\ wire.line = StatusLine) =>
    /\ wire.pc # "failed"
    /\ wire.inflight = << >> => wire.pc \in {"drain", "done"}

\* C23: when the HTTP CONNECT client has read the blank line after a 200,
\* the bytes its listeners have taken from the socket are bytes of the
\* response head: none of the bytes that follow the blank line.
C23_NothingConsumedAfterHeaders ==
  (wire.use = "http" /\ wire.pc \in {"drain", "done"}) => wire.got <= wire.head

\* C28: when the peer has closed the stream and the socket has emitted
\* 'closed', no protocol client is waiting for reply bytes: the pending read
\* has failed and with it the connect call.
C28_NoWaitOnClosedStream ==
  (wire.use \in {"socks5", "http"} /\ wire.closed) => wire.pc \in {"failed", "done"}

\* C24: the user id a SOCKS4 hop's request carries is the hop's username
\* (empty when the hop has none), and never its password.
C24_Socks4UseridIsUsername ==
  \A c \in CallIds :
    calls[c].lastWrite.msg.kind = "socks4" =>
      /\ calls[c].lastWrite.msg.username = calls[c].chain[calls[c].lastWrite.hop].username
      /\ calls[c].lastWrite.msg.password = ""

\* C25: SOCKS4Protocol.connect with an IPv6 literal (hex digits and colons,
\* with a colon) fails with an address-type-unsupported error and writes no
\* request.
C25_Socks4RefusesIPv6 ==
  (wire.use = "addr" /\ wire.pc = "socks4" /\ S5IsIPv6(wire.address)) =>
    (wire.error = "AddressTypeUnsupported" /\ wire.request = << >>)

\* four dot-separated groups of 1-3 decimal digits, each with a value in 0..255
FourOctets(address) ==
  LET parts == Split(address, ".") IN
  /\ Len(parts) = 4
  /\ \A i \in 1..4 :
       /\ Len(parts[i]) \in 1..3
       /\ \A j \in 1..Len(parts[i]) : parts[i][j] \in Digits
       /\ ParseInt(parts[i], 10) \in 0..255

\* C26: the SOCKS5 classifier gives IPv4 exactly for four dotted groups of
\* 1-3 digits with values 0..255, IPv6 exactly for strings of hex digits and
\* colons with a colon, domain for every other non-empty string; an IPv4
\* CONNECT request carries the four group values unchanged.
C26_Socks5AddressClassifier ==
  (wire.use = "addr" /\ wire.pc = "socks5") =>
    LET a == wire.address
        atyp == GetAddressType(a)
    IN /\ atyp \in {1, 3, 4}
       /\ atyp = 1 <=> FourOctets(a)
       /\ atyp = 4 <=> S5IsIPv6(a)
       /\ (atyp = 1 /\ wire.error = "none") =>
            /\ wire.request[4] = 1
            /\ \A i \in 1..4 : wire.request[4 + i] = ParseInt(Split(a, ".")[i], 10)

\* C27: a handshake write on a socket that is not connected fails the
\* attempt: the protocol client a connect call is made on does not go on to
\* wait for a reply.
C27_FailedWriteFailsAttempt ==
  [][\A c \in CallIds :
       (calls'[c].request # calls[c].request /\ ~calls'[c].connected) =>
         calls'[c].pc # "reading"]_vars

\* buildChain arguments the preconditions exclude: no proxies, an empty
\* target host, or a target port outside 1..65535
InvalidArguments(a) ==
  Len(a.chain) = 0 \/ a.targetAddress = 0 \/ a.targetPort \notin 1..MaxPort

\* C29: buildChain called with no proxies, an empty target host or a target
\* port outside 1..65535 is rejected with a configuration error, without
\* constructing a socket and without writing a handshake message.
C29_InvalidArgumentsOpenNothing ==
  \A c \in CallIds :
    (calls[c].pc # "idle" /\ InvalidArguments(inputs[c])) =>
      /\ calls[c].outer = "rejected"
      /\ calls[c].error \in {"InvalidChain", "InvalidTarget"}
      /\ calls[c].opened = 0
      /\ calls[c].lastWrite = NoWrite

\* the protocol client a type string names, whatever its case; "none" for
\* every other type
ClientNamed(type) ==
  CASE type \in {"socks5", "SOCKS5"} -> "SOCKS5Protocol"
    [] type \in {"socks4", "SOCKS4"} -> "SOCKS4Protocol"
    [] type \in {"http", "HTTP", "https", "HTTPS"} -> "HttpConnectProtocol"
    [] OTHER -> "none"

\* C30: every connect call goes to the protocol client the hop's type names
\* case-insensitively (http and https both HTTP CONNECT), and a hop of any
\* other type ends buildChain at once: rejected, no connect call and no
\* retry for that hop, the socket closed and out of the registry.
C30_ClientChosenByTypeIgnoringCase ==
  \A c \in CallIds :
    /\ calls[c].request.hop > 0 =>
         /\ calls[c].request.handler = ClientNamed(calls[c].chain[calls[c].request.hop].type)
         /\ calls[c].request.handler # "none"
    /\ (calls[c].i > 0 /\ ClientNamed(calls[c].chain[calls[c].i].type) = "none") =>
         /\ calls[c].pc = "threw"
         /\ calls[c].outer = "rejected"
         /\ calls[c].nAttempts = 0 /\ calls[c].retryCount = 0
         /\ calls[c].request.hop # calls[c].i /\ calls[c].lastWrite.hop # calls[c].i
         /\ calls[c].closeCalls >= 1
         /\ ~calls[c].connected /\ calls[c].res = "closed"
         /\ c \notin activeConnections
    /\ calls[c].error = "UnsupportedProxyType" =>
         (calls[c].i > 0 /\ ClientNamed(calls[c].chain[calls[c].i].type) = "none")

\* buildChain has failed on a second hop of an unknown type after an HTTP
\* CONNECT client was chosen for the first hop, of type HTTP in capitals
C30_Reached ==
  \E c \in CallIds :
    /\ calls[c].error = "UnsupportedProxyType"
    /\ calls[c].i = 2 /\ calls[c].chain[1].type = "HTTP"
    /\ calls[c].request = [hop |-> 1, handler |-> "HttpConnectProtocol",
                            address |-> ProxyHost(2), port |-> ProxyPort(2), attempt |-> 1]
    /\ calls[c].res = "closed"

\* C34: the SOCKS4 request is 04 01, the port, DSTIP, the user id and a NUL;
\* DSTIP is the literal of a dotted-quad target, and 0.0.0.1 for every other
\* target, whose name and a NUL then follow the user id's NUL.  (The call is
\* made without a user id and with port 443.)
C34_Socks4RequestLayout ==
  (wire.use = "addr" /\ wire.pc = "socks4" /\ wire.error = "none") =>
    wire.request =
      <<4, 1, 1, 187>>
      \o (IF FourOctets(wire.address)
          THEN [i \in 1..4 |-> ParseInt(Split(wire.address, ".")[i], 10)] \o <<0>>
          ELSE <<0, 0, 0, 1>> \o <<0>> \o Encode(wire.address) \o <<0>>)

\* C33: the username/password request is sent only when username and
\* password are each non-empty and at most 255 bytes long in UTF-8, and its
\* ULEN and PLEN bytes are the byte lengths of the encoded username and
\* password.
C33_AuthLengthsAreByteLengths ==
  (wire.use = "addr" /\ wire.pc = "auth" /\ wire.error = "none") =>
    LET ulen == Len(Encode(wire.address))
        plen == Len(Encode(wire.password))
    IN /\ ulen \in 1..255 /\ plen \in 1..255
       /\ wire.request[2] = ulen
       /\ wire.request[3 + ulen] = plen

\* C35: the CONNECT request of an HTTP hop carries a Proxy-Authorization
\* header made from the hop's username and password (the password empty when
\* the hop has none) whenever the hop has a username, and no such header
\* when the hop has no credentials.
C35_BasicAuthWheneverUsername ==
  \A c \in CallIds :
    LET msg == calls[c].lastWrite.msg
        proxy == calls[c].chain[calls[c].lastWrite.hop]
    IN msg.kind = "http" =>
         IF proxy.username # ""
         THEN msg.username = proxy.username /\ msg.password = proxy.password
         ELSE msg.username = "" /\ msg.password = ""

\* C39: every socket in activeConnections is connected, so a tunnel its
\* caller has closed is not counted by getStats().activeConnections.
C39_RegisteredAreConnected ==
  /\ \A c \in activeConnections : calls[c].connected
  /\ GetStats(activeConnections).activeConnections
       = Cardinality({ c \in activeConnections : calls[c].connected })


C31_SuccessOnlyAfterAcceptedReplies ==
  wire.use = "socks5" =>
    LET mrep == wire.replies[1]
        arep == wire.replies[2]
        crep == wire.replies[3]
        methodAccepted == mrep[1] = 5 /\ mrep[2] \in {0, 2} /\ wire.got >= 2
        authPassed == wire.auth = "both" /\ arep = <<1, 0>> /\ wire.got >= 4
        wrote(kind) == \E n \in 1..Len(wire.written) : wire.written[n] = kind
    IN /\ wire.pc = "done" =>
            /\ methodAccepted
            /\ mrep[2] = 2 => authPassed
            /\ crep[1] = 5 /\ crep[2] = 0 /\ crep[3] = 0 /\ crep[4] \in {1, 3, 4}
       /\ wrote("auth") => (methodAccepted /\ mrep[2] = 2 /\ wire.auth = "both")
       /\ wrote("connect") =>
            /\ methodAccepted
            /\ mrep[2] = 2 => authPassed
            /\ wire.written = ExpectedWritten(wire)

\* connect has returned after the server selected method 2
C31_Reached ==
  wire.use = "socks5" /\ wire.pc = "done" /\ wire.sel = 2

\* C32: on success the SOCKS5 client returns the address type, the bound
\* address and the bound port of the server's CONNECT reply.
C32_ReturnsBoundAddress ==
  (wire.use = "socks5" /\ wire.pc = "done") =>
    LET crep == wire.replies[3]
        atyp == crep[4]
        bnd == IF atyp = 3 THEN SubSeq(crep, 6, 5 + crep[5])
               ELSE SubSeq(crep, 5, Len(crep) - 2)
        address == wire.result.address
    IN /\ wire.result.addressType = atyp
       /\ wire.result.port = crep[Len(crep) - 1] * 256 + crep[Len(crep)]
       /\ GetAddressType(address) = atyp
       /\ bnd = (CASE atyp = 1 -> S5Ipv4ToBytes(address)
                   [] atyp = 4 -> Ipv6ToBytes(address)
                   [] OTHER -> Encode(address))

\* C38: when a connect call of a protocol client has returned or thrown, no
\* listener that its read helpers attached is left on the socket.
C38_NoListenerLeft ==
  (wire.use \in {"socks5", "http"} /\ wire.pc \in {"done", "failed"}) => wire.attached = 0

\* the first line is HTTP/1.0 or HTTP/1.1, a space, three digits, a space
\* and a reason, which may be empty
FirstLineShaped(line) ==
  /\ Len(line) >= 13
  /\ SubSeq(line, 1, 9) \in { <<"H", "T", "T", "P", "/", "1", ".", v, " ">> : v \in {"0", "1"} }
  /\ \A j \in 10..12 : line[j] \in Digits
  /\ line[13] = " "
  /\ \A j \in 14..Len(line) : line[j] \notin {"CR", "LF"}

C40_ActiveChainIsStored ==
  (wire.use = "store" /\ \A k \in 1..2 : wire.ops[k].pc \in {"idle", "done", "failed"}) =>
    /\ wire.active = 0 \/ \E i \in 1..Len(wire.chains) : wire.chains[i] = wire.active
    /\ \A i, j \in 1..Len(wire.chains) : wire.chains[i] = wire.chains[j] => i = j
====
